---- MODULE Spec2Model ----
(***************************************************************************)
(* A model of the sportcalc calculation engine: the exercise record        *)
(* (ExerciseStats and its METs-based and cycling subclasses), the unit     *)
(* conversions, and the operations update / as_dict / json / summarize.    *)
(*                                                                         *)
(* Python floats are modelled as exact rationals <<n, d>> in lowest terms  *)
(* with d > 0, so that every formula of the code is computed as written    *)
(* and an algebraic identity is something the check can refute.            *)
(***************************************************************************)
EXTENDS Integers, Sequences, FiniteSets, TLC

VARIABLES recs, log, call

vars == <<recs, log, call>>

(***************************************************************************)
(* Rational arithmetic (the float operators + - * / < of the source).      *)
(***************************************************************************)
Abs(n) == IF n < 0 THEN -n ELSE n

RECURSIVE GCD(_, _)
GCD(a, b) == IF b = 0 THEN a ELSE GCD(b, a % b)

\* The rational n/d in lowest terms, d > 0.
Q(n, d) ==
    LET g == GCD(Abs(n), Abs(d))
        s == IF d < 0 THEN -1 ELSE 1
    IN  <<(s * n) \div g, (s * d) \div g>>

QInt(n) == <<n, 1>>

\* The outcome of an expression in which a division by zero was attempted
\* (Python raises ZeroDivisionError there); every operator propagates it.
DivZero == <<0, 0>>

IsDivZero(a) == a[2] = 0

QMul(a, b) ==
    IF IsDivZero(a) \/ IsDivZero(b) THEN DivZero
    ELSE LET g1 == GCD(Abs(a[1]), b[2])
             g2 == GCD(Abs(b[1]), a[2])
         IN  <<(a[1] \div g1) * (b[1] \div g2), (a[2] \div g2) * (b[2] \div g1)>>

QDiv(a, b) ==
    IF IsDivZero(a) \/ IsDivZero(b) \/ b[1] = 0 THEN DivZero
    ELSE QMul(a, IF b[1] < 0 THEN <<-b[2], -b[1]>> ELSE <<b[2], b[1]>>)

QAdd(a, b) ==
    IF IsDivZero(a) \/ IsDivZero(b) THEN DivZero
    ELSE LET g == GCD(a[2], b[2])
         IN  Q(a[1] * (b[2] \div g) + b[1] * (a[2] \div g), (a[2] \div g) * b[2])

QNeg(a) == <<-a[1], a[2]>>

QSub(a, b) == QAdd(a, QNeg(b))

QLt(a, b) ==
    LET g == GCD(a[2], b[2])
    IN  a[1] * (b[2] \div g) < b[1] * (a[2] \div g)

QLe(a, b) == ~QLt(b, a)

(***************************************************************************)
(* Outcomes of a call: a returned value or a raised exception.             *)
(***************************************************************************)
Return(v) == [err |-> "none", val |-> v]

Raise(e) == [err |-> e, val |-> <<>>]

\* The base class of every exception class raised: CoreException derives
\* from Exception and CoreValueError from CoreException; the others are
\* classes of the language.
ExceptionBase ==
    [cls \in {"CoreException", "CoreValueError", "ValueError", "TypeError",
              "AttributeError", "ZeroDivisionError", "KeyboardInterrupt", "Exception"} |->
        CASE cls = "CoreValueError" -> "CoreException"
          [] cls \in {"KeyboardInterrupt", "Exception"} -> "BaseException"
          [] OTHER -> "Exception"]

\* issubclass(cls, base)
RECURSIVE issubclass(_, _)
issubclass(cls, base) ==
    \/ cls = base
    \/ cls \in DOMAIN ExceptionBase /\ issubclass(ExceptionBase[cls], base)

(***************************************************************************)
(* conversions.py                                                          *)
(***************************************************************************)
j2kj(joules) == QDiv(joules, QInt(1000))

j2kcal(joules) == QDiv(joules, QInt(4184))

\* Mutant of kcal2j: the 15-degree calorie (4186 J) is used.
kcal2j_4186(kcal) == QMul(kcal, QInt(4186))

kcal2j(kcal) == QMul(kcal, QInt(4184))

\* Mutant of ms2kmh: the factor 3.6 is not applied.
ms2kmh_identity(mps) == QMul(mps, Q(1, 1))

ms2kmh(mps) == QMul(mps, Q(36, 10))

\* Mutant of datetime2seconds: the validation is not opt-in.
datetime2seconds_always_checks(dt, check) ==
    LET result == dt[1] * 3600 + dt[2] * 60 + dt[3]
    IN  IF result <= 0 THEN Raise("CoreValueError") ELSE Return(result)

\* dt is <<hour, minute, second>>; the result is an int.
datetime2seconds(dt, check) ==
    LET result == dt[1] * 3600 + dt[2] * 60 + dt[3]
    IN  IF check /\ result <= 0
        THEN Raise("CoreValueError")
        ELSE Return(result)

(***************************************************************************)
(* Bounds and input domains.                                               *)
(***************************************************************************)
\* Identities of the records a run may construct; Spec constructs SpecIds.
RecIds == {1, 2}

SpecIds == {1}

Classes ==
    {"ExerciseStats", "MetsStats", "RunningStats", "WalkingStats",
     "SpeedSkatingStats", "CyclingStats"}

MetsSpeedClasses == {"RunningStats", "WalkingStats", "SpeedSkatingStats"}

MetsClasses == MetsSpeedClasses \cup {"MetsStats"}

\* distance_m > 0 in metres, chosen per class so that with Times the speed
\* falls on the first, an inner and the last breakpoint of the class's table,
\* between breakpoints, and below and above the table.
Distances(cls) ==
    CASE cls = "RunningStats" -> {Q(4800, 1), Q(8000, 1), Q(9600, 1), Q(16100, 1)}
      [] cls = "WalkingStats" -> {Q(1000, 1), Q(1610, 1), Q(3220, 1), Q(4800, 1)}
      [] cls = "SpeedSkatingStats" ->
           {Q(7240, 1), Q(10000, 1), Q(13150, 1), Q(21000, 1)}
      [] cls = "CyclingStats" -> {Q(18000, 1), Q(24000, 1), Q(36000, 1)}
      [] OTHER -> {Q(4800, 1), Q(10000, 1), Q(40000, 1)}

\* <<hour, minute, second>>
Times == {<<0, 0, 0>>, <<1, 0, 0>>, <<0, 30, 0>>}

Weights == {Q(70, 1), Q(80, 1)}

Ascents == {Q(0, 1), Q(100, 1)}

Descents == {Q(0, 1), Q(100, 1)}

AirDensities == {Q(1293, 1000)}

Fractions == {Q(0, 1), Q(1, 1)}

(***************************************************************************)
(* Class-level attributes.                                                 *)
(***************************************************************************)
GRAVITY_N == Q(981, 100)

DRAFT_FACTOR == Q(3, 10)

DRAG_COEFFICIENT_TIMES_AREA_M2 == Q(39, 100)

EFFICIENCY_DRIVE_TRAIN == Q(98, 100)

EFFICIENCY_HUMAN == Q(25, 100)

ROLL_RESISTANCE == Q(3, 1000)

EFFICIENCY == QMul(EFFICIENCY_HUMAN, EFFICIENCY_DRIVE_TRAIN)

\* Mutant of METS_KM_H: two breakpoints of the running table are swapped.
METS_KM_H_unordered(cls) ==
    CASE cls = "RunningStats" ->
           <<Q(80, 10), Q(107, 10), Q(96, 10), Q(120, 10), Q(138, 10), Q(161, 10)>>
      [] cls = "WalkingStats" ->
           <<Q(161, 100), Q(322, 100), Q(483, 100), Q(568, 100), Q(644, 100)>>
      [] cls = "SpeedSkatingStats" ->
           <<Q(1448, 100), Q(177, 10), Q(210, 10), Q(240, 10), Q(263, 10)>>

METS_KM_H(cls) ==
    CASE cls = "RunningStats" ->
           <<Q(80, 10), Q(96, 10), Q(107, 10), Q(120, 10), Q(138, 10), Q(161, 10)>>
      [] cls = "WalkingStats" ->
           <<Q(161, 100), Q(322, 100), Q(483, 100), Q(568, 100), Q(644, 100)>>
      [] cls = "SpeedSkatingStats" ->
           <<Q(1448, 100), Q(177, 10), Q(210, 10), Q(240, 10), Q(263, 10)>>

METS_KCAL_KG_H(cls) ==
    CASE cls = "RunningStats" ->
           <<Q(80, 10), Q(100, 10), Q(110, 10), Q(125, 10), Q(140, 10), Q(160, 10)>>
      [] cls = "WalkingStats" ->
           <<Q(20, 10), Q(25, 10), Q(33, 10), Q(38, 10), Q(50, 10)>>
      [] cls = "SpeedSkatingStats" ->
           <<Q(55, 10), Q(78, 10), Q(103, 10), Q(120, 10), Q(133, 10)>>

\* The speed-skating breakpoints of the earlier revision (speedskatingcalc).
METS_KM_H_speedskatingcalc ==
    <<Q(1448, 100), Q(177, 10), Q(210, 10), Q(240, 10), Q(266, 10)>>

\* Names bound to a value in the class body (annotations alone bind nothing).
ClassAttrNames(cls) ==
    {"ascent_m", "descent_m", "air_density_kgpm3", "GRAVITY_N"}
    \cup (IF cls = "CyclingStats"
          THEN {"DRAFT_FACTOR", "DRAG_COEFFICIENT_TIMES_AREA_M2",
                "EFFICIENCY_DRIVE_TRAIN", "EFFICIENCY_HUMAN", "ROLL_RESISTANCE",
                "EFFICIENCY", "fraction_spend_drafting"}
          ELSE {})
    \cup (IF cls \in MetsSpeedClasses
          THEN {"METS_KM_H", "METS_KCAL_KG_H"}
          ELSE {})

ClassAttr(cls, name) ==
    CASE name = "ascent_m" -> Q(0, 1)
      [] name = "descent_m" -> Q(0, 1)
      [] name = "air_density_kgpm3" -> Q(1293, 1000)
      [] name = "GRAVITY_N" -> GRAVITY_N
      [] name = "DRAFT_FACTOR" -> DRAFT_FACTOR
      [] name = "DRAG_COEFFICIENT_TIMES_AREA_M2" -> DRAG_COEFFICIENT_TIMES_AREA_M2
      [] name = "EFFICIENCY_DRIVE_TRAIN" -> EFFICIENCY_DRIVE_TRAIN
      [] name = "EFFICIENCY_HUMAN" -> EFFICIENCY_HUMAN
      [] name = "ROLL_RESISTANCE" -> ROLL_RESISTANCE
      [] name = "EFFICIENCY" -> EFFICIENCY
      [] name = "fraction_spend_drafting" -> Q(0, 1)
      [] name = "METS_KM_H" -> METS_KM_H(cls)
      [] name = "METS_KCAL_KG_H" -> METS_KCAL_KG_H(cls)

PropertyNames == {"time_s", "time_h", "distance_km"}

\* Public and private methods: what dir() lists and callable() filters out.
MethodNames(cls) ==
    {"update", "as_dict", "summarize", "json"}
    \cup (IF cls \in MetsClasses THEN {"calc_energy_kcal"} ELSE {})
    \cup (IF cls \in MetsSpeedClasses THEN {"calc_mets_kcal_kg_h"} ELSE {})
    \cup (IF cls = "CyclingStats"
          THEN {"_calc_work", "_calc_force_drag", "_calc_avg_draft_factor",
                "_calc_avg_power_w", "_calc_avg_power_drag_w",
                "_calc_avg_power_gravity_w", "_calc_avg_power_roll_w"}
          ELSE {})

\* key.startswith("_")
PrivateNames ==
    {"__init__", "__dict__", "__class__", "_calc_work", "_calc_force_drag",
     "_calc_avg_draft_factor", "_calc_avg_power_w", "_calc_avg_power_drag_w",
     "_calc_avg_power_gravity_w", "_calc_avg_power_roll_w"}

(***************************************************************************)
(* Attribute lookup on a record o = [cls, attrs]: attrs is the instance    *)
(* dictionary (a function from attribute names to values).                 *)
(***************************************************************************)
\* Mutant of time_s: the conversion is not asked to validate.
time_s_unchecked(o) ==
    LET r == datetime2seconds(o.attrs["time"], FALSE)
    IN  IF r.err # "none" THEN r ELSE Return(QInt(r.val))

time_s(o) ==
    LET r == datetime2seconds(o.attrs["time"], TRUE)
    IN  IF r.err # "none" THEN r ELSE Return(QInt(r.val))

time_h(o) ==
    LET r == time_s(o)
    IN  IF r.err # "none" THEN r ELSE Return(QDiv(r.val, QInt(3600)))

distance_km(o) == Return(QDiv(o.attrs["distance_m"], QInt(1000)))

\* The bound method name of a record (a callable value).
BoundMethod(name) == <<"method", name>>

\* getattr(self, name): properties first, then the instance dictionary, then
\* the class attributes and methods; a name bound nowhere raises
\* AttributeError.
GetAttr(o, name) ==
    IF name = "time_s" THEN time_s(o)
    ELSE IF name = "time_h" THEN time_h(o)
    ELSE IF name = "distance_km" THEN distance_km(o)
    ELSE IF name \in DOMAIN o.attrs THEN Return(o.attrs[name])
    ELSE IF name \in ClassAttrNames(o.cls) THEN Return(ClassAttr(o.cls, name))
    ELSE IF name \in MethodNames(o.cls) THEN Return(BoundMethod(name))
    ELSE Raise("AttributeError")

\* The value of an attribute whose lookup succeeds.
V(o, name) == GetAttr(o, name).val

(***************************************************************************)
(* np.interp(x, xp, fp): clamped piecewise-linear interpolation.           *)
(***************************************************************************)
\* The largest j with xp[j] <= x, for xp[1] <= x.
RECURSIVE Locate(_, _, _)
Locate(x, xp, j) ==
    IF j < Len(xp) /\ QLe(xp[j + 1], x) THEN Locate(x, xp, j + 1) ELSE j

\* Mutant of interp: beyond the last breakpoint the last segment is
\* extrapolated instead of clamped.
interp_extrapolates(x, xp, fp) ==
    IF QLt(x, xp[1]) THEN fp[1]
    ELSE LET n == Len(xp)
             k == Locate(x, xp, 1)
             j == IF k = n THEN n - 1 ELSE k
             slope == QDiv(QSub(fp[j + 1], fp[j]), QSub(xp[j + 1], xp[j]))
         IN  QAdd(QMul(slope, QSub(x, xp[j])), fp[j])

interp(x, xp, fp) ==
    IF QLt(xp[Len(xp)], x) THEN fp[Len(fp)]
    ELSE IF QLt(x, xp[1]) THEN fp[1]
    ELSE LET j == Locate(x, xp, 1)
         IN  IF j = Len(xp) THEN fp[j]
             ELSE IF xp[j] = x THEN fp[j]
             ELSE LET slope == QDiv(QSub(fp[j + 1], fp[j]), QSub(xp[j + 1], xp[j]))
                  IN  QAdd(QMul(slope, QSub(x, xp[j])), fp[j])

\* Mutant of is_out_of_range: the comparisons are not strict.
is_out_of_range_inclusive(speed_kmph, xp) ==
    QLe(speed_kmph, xp[1]) \/ QLe(xp[Len(xp)], speed_kmph)

is_out_of_range(speed_kmph, xp) ==
    QLt(speed_kmph, xp[1]) \/ QLt(xp[Len(xp)], speed_kmph)

\* calc_mets_kcal_kg_h that extends the first segment of the table below
\* the first breakpoint instead of holding the first METs value.
calc_mets_kcal_kg_h_unclamped(cls, speed_kmph) ==
    [val |-> IF QLt(speed_kmph, METS_KM_H(cls)[1])
             THEN QAdd(METS_KCAL_KG_H(cls)[1],
                       QMul(QDiv(QSub(METS_KCAL_KG_H(cls)[2], METS_KCAL_KG_H(cls)[1]),
                                 QSub(METS_KM_H(cls)[2], METS_KM_H(cls)[1])),
                            QSub(speed_kmph, METS_KM_H(cls)[1])))
             ELSE interp(speed_kmph, METS_KM_H(cls), METS_KCAL_KG_H(cls)),
     warn |-> is_out_of_range(speed_kmph, METS_KM_H(cls))]

\* MetsSpeedStats.calc_mets_kcal_kg_h: the value and whether it logged the
\* out-of-range warning.
calc_mets_kcal_kg_h(cls, speed_kmph) ==
    [val |-> interp(speed_kmph, METS_KM_H(cls), METS_KCAL_KG_H(cls)),
     warn |-> is_out_of_range(speed_kmph, METS_KM_H(cls))]

\* Mutant of calc_energy_kcal: the resting MET is not subtracted.
calc_energy_kcal_with_rest(o, mets_kcal_kg_h) ==
    QMul(QMul(mets_kcal_kg_h, V(o, "weight_kg")), V(o, "time_h"))

\* MetsStats.calc_energy_kcal
calc_energy_kcal(o, mets_kcal_kg_h) ==
    LET mets_active_only == QSub(mets_kcal_kg_h, QInt(1))
    IN  QMul(QMul(mets_active_only, V(o, "weight_kg")), V(o, "time_h"))

(***************************************************************************)
(* CyclingStats helpers.                                                   *)
(***************************************************************************)
\* Mutant of _calc_work: the descent term is divided by the efficiency too.
_calc_work_divides_descent(work_drag_j, work_roll_j, work_ascent_j, work_descent_j, efficiency) ==
    QDiv(QAdd(QAdd(QAdd(work_drag_j, work_ascent_j), work_roll_j), work_descent_j),
         efficiency)

_calc_work(work_drag_j, work_roll_j, work_ascent_j, work_descent_j, efficiency) ==
    LET work_j == QAdd(QAdd(work_drag_j, work_ascent_j), work_roll_j)
    IN  QAdd(QDiv(work_j, efficiency), work_descent_j)

\* Mutant of _calc_force_drag: the drafting reduction is not applied.
_calc_force_drag_undrafted(o, avg_draft_factor) ==
    QMul(QMul(QMul(Q(1, 2), V(o, "DRAG_COEFFICIENT_TIMES_AREA_M2")),
              V(o, "air_density_kgpm3")),
         QMul(V(o, "speed_ms"), V(o, "speed_ms")))

_calc_force_drag(o, avg_draft_factor) ==
    LET drafting_reduction == QSub(QInt(1), avg_draft_factor)
        force == QMul(QMul(QMul(Q(1, 2), V(o, "DRAG_COEFFICIENT_TIMES_AREA_M2")),
                           V(o, "air_density_kgpm3")),
                      QMul(V(o, "speed_ms"), V(o, "speed_ms")))
    IN  QMul(force, drafting_reduction)

_calc_avg_draft_factor(o) ==
    QMul(V(o, "DRAFT_FACTOR"), V(o, "fraction_spend_drafting"))

_calc_avg_power_w(o, work_j) ==
    QDiv(QDiv(work_j, V(o, "EFFICIENCY_DRIVE_TRAIN")), V(o, "time_s"))

_calc_avg_power_drag_w(o, work_drag_j) ==
    QDiv(QDiv(work_drag_j, V(o, "EFFICIENCY_DRIVE_TRAIN")), V(o, "time_s"))

_calc_avg_power_gravity_w(o, work_ascent_j, work_descend_j) ==
    LET work_gravity_j ==
            QAdd(QDiv(work_ascent_j, V(o, "EFFICIENCY_DRIVE_TRAIN")), work_descend_j)
    IN  QDiv(work_gravity_j, V(o, "time_s"))

_calc_avg_power_roll_w(o, work_roll_j) ==
    QDiv(QDiv(work_roll_j, V(o, "EFFICIENCY_DRIVE_TRAIN")), V(o, "time_s"))

(***************************************************************************)
(* update(): the assignments of each class, in statement order.  Each      *)
(* assignment names the attributes its right-hand side reads (in           *)
(* evaluation order) and the value it stores.                              *)
(***************************************************************************)
ExerciseStats_update == <<"speed_ms", "speed_kmph">>

MetsStats_update == ExerciseStats_update \o <<"energy_kcal", "energy_kj">>

MetsSpeedStats_update ==
    ExerciseStats_update \o <<"mets_kcal_kg_h", "energy_kcal", "energy_kj">>

CyclingStats_update ==
    ExerciseStats_update \o
    <<"avg_draft_factor", "force_drag", "work_drag_j", "energy_drag_j",
      "energy_drag_kj", "avg_power_drag_w",
      "force_gravity", "work_ascent_j", "work_descend_j", "energy_gravity_j",
      "energy_gravity_kj", "avg_power_gravity_w",
      "force_roll", "work_roll_j", "energy_roll_j", "energy_roll_kj",
      "avg_power_roll_w",
      "work_j", "energy_j", "energy_kj", "energy_kcal", "avg_power_w">>

\* Mutant of UpdateSteps: CyclingStats computes the gravity force before it
\* calls the parent's update().
UpdateSteps_gravity_first(cls) ==
    CASE cls = "ExerciseStats" -> ExerciseStats_update
      [] cls = "MetsStats" -> MetsStats_update
      [] cls \in MetsSpeedClasses -> MetsSpeedStats_update
      [] cls = "CyclingStats" -> <<"force_gravity">> \o CyclingStats_update

UpdateSteps(cls) ==
    CASE cls = "ExerciseStats" -> ExerciseStats_update
      [] cls = "MetsStats" -> MetsStats_update
      [] cls \in MetsSpeedClasses -> MetsSpeedStats_update
      [] cls = "CyclingStats" -> CyclingStats_update

StepReads(cls, name) ==
    CASE name = "speed_ms" -> <<"distance_m", "time_s">>
      [] name = "speed_kmph" -> <<"speed_ms">>
      [] name = "mets_kcal_kg_h" -> <<"speed_kmph", "METS_KM_H", "METS_KCAL_KG_H">>
      [] name = "energy_kcal" /\ cls \in MetsClasses ->
           <<"mets_kcal_kg_h", "weight_kg", "time_h">>
      [] name = "energy_kj" /\ cls \in MetsClasses -> <<"energy_kcal">>
      [] name = "avg_draft_factor" -> <<"DRAFT_FACTOR", "fraction_spend_drafting">>
      [] name = "force_drag" ->
           <<"avg_draft_factor", "DRAG_COEFFICIENT_TIMES_AREA_M2",
             "air_density_kgpm3", "speed_ms">>
      [] name = "work_drag_j" -> <<"distance_m", "force_drag">>
      [] name = "energy_drag_j" -> <<"work_drag_j", "EFFICIENCY">>
      [] name = "energy_drag_kj" -> <<"energy_drag_j">>
      [] name = "avg_power_drag_w" ->
           <<"work_drag_j", "EFFICIENCY_DRIVE_TRAIN", "time_s">>
      [] name = "force_gravity" -> <<"weight_kg", "GRAVITY_N">>
      [] name = "work_ascent_j" -> <<"ascent_m", "force_gravity">>
      [] name = "work_descend_j" -> <<"descent_m", "force_gravity">>
      [] name = "energy_gravity_j" -> <<"work_ascent_j", "EFFICIENCY">>
      [] name = "energy_gravity_kj" -> <<"energy_gravity_j">>
      [] name = "avg_power_gravity_w" ->
           <<"work_ascent_j", "work_descend_j", "EFFICIENCY_DRIVE_TRAIN", "time_s">>
      [] name = "force_roll" -> <<"force_gravity", "ROLL_RESISTANCE">>
      [] name = "work_roll_j" -> <<"distance_m", "force_roll">>
      [] name = "energy_roll_j" -> <<"work_roll_j", "EFFICIENCY">>
      [] name = "energy_roll_kj" -> <<"energy_roll_j">>
      [] name = "avg_power_roll_w" ->
           <<"work_roll_j", "EFFICIENCY_DRIVE_TRAIN", "time_s">>
      [] name = "work_j" ->
           <<"work_drag_j", "work_roll_j", "work_ascent_j", "work_descend_j">>
      [] name = "energy_j" ->
           <<"work_drag_j", "work_roll_j", "work_ascent_j", "work_descend_j",
             "EFFICIENCY">>
      [] name = "energy_kj" /\ cls = "CyclingStats" -> <<"energy_j">>
      [] name = "energy_kcal" /\ cls = "CyclingStats" -> <<"energy_j">>
      [] name = "avg_power_w" -> <<"work_j", "EFFICIENCY_DRIVE_TRAIN", "time_s">>

\* Right-hand sides of the assignments (every attribute read is bound).
speed_ms(o) == QDiv(V(o, "distance_m"), V(o, "time_s"))

speed_kmph(o) == ms2kmh(V(o, "speed_ms"))

mets_kcal_kg_h(o) == calc_mets_kcal_kg_h(o.cls, V(o, "speed_kmph")).val

mets_energy_kcal(o) == calc_energy_kcal(o, V(o, "mets_kcal_kg_h"))

mets_energy_kj(o) == QMul(kcal2j(V(o, "energy_kcal")), Q(1, 1000))

work_drag_j(o) == QMul(V(o, "distance_m"), V(o, "force_drag"))

energy_drag_j(o) == QDiv(V(o, "work_drag_j"), V(o, "EFFICIENCY"))

force_gravity(o) == QMul(V(o, "weight_kg"), V(o, "GRAVITY_N"))

work_ascent_j(o) == QMul(V(o, "ascent_m"), V(o, "force_gravity"))

\* Mutant of work_descend_j: the sign is dropped.
work_descend_j_positive(o) == QMul(V(o, "descent_m"), V(o, "force_gravity"))

work_descend_j(o) == QMul(QNeg(V(o, "descent_m")), V(o, "force_gravity"))

\* Mutant of energy_gravity_j: the net gravity work (ascent and descent).
energy_gravity_j_net(o) ==
    QDiv(QAdd(V(o, "work_ascent_j"), V(o, "work_descend_j")), V(o, "EFFICIENCY"))

energy_gravity_j(o) == QDiv(V(o, "work_ascent_j"), V(o, "EFFICIENCY"))

force_roll(o) == QMul(V(o, "force_gravity"), V(o, "ROLL_RESISTANCE"))

work_roll_j(o) == QMul(V(o, "distance_m"), V(o, "force_roll"))

energy_roll_j(o) == QDiv(V(o, "work_roll_j"), V(o, "EFFICIENCY"))

work_j(o) ==
    _calc_work(V(o, "work_drag_j"), V(o, "work_roll_j"), V(o, "work_ascent_j"),
               V(o, "work_descend_j"), QInt(1))

energy_j(o) ==
    _calc_work(V(o, "work_drag_j"), V(o, "work_roll_j"), V(o, "work_ascent_j"),
               V(o, "work_descend_j"), V(o, "EFFICIENCY"))

avg_power_w(o) == _calc_avg_power_w(o, V(o, "work_j"))

StepValue(o, name) ==
    CASE name = "speed_ms" -> speed_ms(o)
      [] name = "speed_kmph" -> speed_kmph(o)
      [] name = "mets_kcal_kg_h" -> mets_kcal_kg_h(o)
      [] name = "energy_kcal" /\ o.cls \in MetsClasses -> mets_energy_kcal(o)
      [] name = "energy_kj" /\ o.cls \in MetsClasses -> mets_energy_kj(o)
      [] name = "avg_draft_factor" -> _calc_avg_draft_factor(o)
      [] name = "force_drag" -> _calc_force_drag(o, V(o, "avg_draft_factor"))
      [] name = "work_drag_j" -> work_drag_j(o)
      [] name = "energy_drag_j" -> energy_drag_j(o)
      [] name = "energy_drag_kj" -> j2kj(V(o, "energy_drag_j"))
      [] name = "avg_power_drag_w" -> _calc_avg_power_drag_w(o, V(o, "work_drag_j"))
      [] name = "force_gravity" -> force_gravity(o)
      [] name = "work_ascent_j" -> work_ascent_j(o)
      [] name = "work_descend_j" -> work_descend_j(o)
      [] name = "energy_gravity_j" -> energy_gravity_j(o)
      [] name = "energy_gravity_kj" -> j2kj(V(o, "energy_gravity_j"))
      [] name = "avg_power_gravity_w" ->
           _calc_avg_power_gravity_w(o, V(o, "work_ascent_j"), V(o, "work_descend_j"))
      [] name = "force_roll" -> force_roll(o)
      [] name = "work_roll_j" -> work_roll_j(o)
      [] name = "energy_roll_j" -> energy_roll_j(o)
      [] name = "energy_roll_kj" -> j2kj(V(o, "energy_roll_j"))
      [] name = "avg_power_roll_w" -> _calc_avg_power_roll_w(o, V(o, "work_roll_j"))
      [] name = "work_j" -> work_j(o)
      [] name = "energy_j" -> energy_j(o)
      [] name = "energy_kj" /\ o.cls = "CyclingStats" -> j2kj(V(o, "energy_j"))
      [] name = "energy_kcal" /\ o.cls = "CyclingStats" -> j2kcal(V(o, "energy_j"))
      [] name = "avg_power_w" -> avg_power_w(o)

\* The first exception raised by reading the attributes reads[i..], or "none".
RECURSIVE ReadError(_, _, _)
ReadError(o, reads, i) ==
    IF i > Len(reads) THEN "none"
    ELSE IF GetAttr(o, reads[i]).err # "none" THEN GetAttr(o, reads[i]).err
    ELSE ReadError(o, reads, i + 1)

\* The warning an assignment logs: the speed and the range of the table.
StepWarnings(o, name) ==
    IF name = "mets_kcal_kg_h" /\ calc_mets_kcal_kg_h(o.cls, V(o, "speed_kmph")).warn
    THEN {[speed |-> V(o, "speed_kmph"),
           lo |-> METS_KM_H(o.cls)[1],
           hi |-> METS_KM_H(o.cls)[Len(METS_KM_H(o.cls))]]}
    ELSE {}

\* f with f[name] bound to v (self.name = v).
SetAttr(attrs, name, v) ==
    [k \in DOMAIN attrs \cup {name} |-> IF k = name THEN v ELSE attrs[k]]

\* self.name += v where the field is already bound.
Store_accumulates(st, name, e, v, w) ==
    IF e # "none" THEN [st EXCEPT !.err = e]
    ELSE IF IsDivZero(v) THEN [st EXCEPT !.err = "ZeroDivisionError"]
    ELSE [attrs |-> SetAttr(st.attrs, name,
                            IF name \in DOMAIN st.attrs THEN QAdd(st.attrs[name], v)
                            ELSE v),
          err |-> "none", warnings |-> st.warnings \cup w]

\* The pass st after self.name = v, where reading the operands raised e
\* ("none" when every read succeeded) and logged the warnings w.
Store(st, name, e, v, w) ==
    IF e # "none" THEN [st EXCEPT !.err = e]
    ELSE IF IsDivZero(v) THEN [st EXCEPT !.err = "ZeroDivisionError"]
    ELSE [attrs |-> SetAttr(st.attrs, name, v), err |-> "none",
          warnings |-> st.warnings \cup w]

\* One assignment self.name = <right-hand side> on the pass st = [attrs, err,
\* warnings] of a record of class cls: once an exception was raised nothing
\* more is executed.
Assign(cls, st, name) ==
    IF st.err # "none" THEN st
    ELSE Store(st, name,
               ReadError([cls |-> cls, attrs |-> st.attrs], StepReads(cls, name), 1),
               StepValue([cls |-> cls, attrs |-> st.attrs], name),
               StepWarnings([cls |-> cls, attrs |-> st.attrs], name))

\* Run the assignments steps in order on o: the resulting instance
\* dictionary, the exception that stopped the pass ("none" when it
\* completed) and the warnings logged.
RunSteps(o, steps) ==
    LET run[i \in 0..Len(steps)] ==
            IF i = 0 THEN [attrs |-> o.attrs, err |-> "none", warnings |-> {}]
            ELSE Assign(o.cls, run[i - 1], steps[i])
    IN  run[Len(steps)]

update(o) == RunSteps(o, UpdateSteps(o.cls))

(***************************************************************************)
(* Construction.  kw is the keyword mapping passed to cls.                 *)
(***************************************************************************)
RequiredArgs ==
    {"distance_m", "time", "weight_kg", "ascent_m", "descent_m",
     "air_density_kgpm3"}

\* Mutant of ExerciseStats_init: the keys the catch-all parameter swallowed
\* are bound on the instance too.
ExerciseStats_init_keeps_extras(kw) ==
    IF ~(RequiredArgs \subseteq DOMAIN kw) THEN Raise("TypeError")
    ELSE Return(kw)

\* ExerciseStats.__init__: the six keyword-only arguments, anything else is
\* swallowed by the catch-all parameter.
ExerciseStats_init(kw) ==
    IF ~(RequiredArgs \subseteq DOMAIN kw) THEN Raise("TypeError")
    ELSE Return([k \in RequiredArgs |-> kw[k]])

\* CyclingStats.__init__: fraction_spend_drafting defaults to 0.
CyclingStats_init(kw) ==
    LET base == ExerciseStats_init(kw)
    IN  IF base.err # "none" THEN base
        ELSE Return(SetAttr(base.val, "fraction_spend_drafting",
                            IF "fraction_spend_drafting" \in DOMAIN kw
                            THEN kw["fraction_spend_drafting"]
                            ELSE Q(0, 1)))

init(cls, kw) ==
    IF cls = "CyclingStats" THEN CyclingStats_init(kw) ELSE ExerciseStats_init(kw)

(***************************************************************************)
(* Result materialization.                                                 *)
(***************************************************************************)
\* dir(self)
Dir(o) ==
    ClassAttrNames(o.cls) \cup PropertyNames \cup MethodNames(o.cls)
    \cup PrivateNames \cup DOMAIN o.attrs

Callable(o, key) == key \in MethodNames(o.cls) /\ key \notin DOMAIN o.attrs

\* Mutant of as_dict: the exclude argument is not consulted.
as_dict_ignores_exclude(o, exclude) ==
    LET tried == {key \in Dir(o) : key \notin PrivateNames}
        bad == {key \in tried : GetAttr(o, key).err # "none"}
    IN  IF bad # {}
        THEN Raise(GetAttr(o, CHOOSE key \in bad : TRUE).err)
        ELSE Return([key \in {k \in tried : ~Callable(o, k)} |-> V(o, key)])

\* ExerciseStats.as_dict: getattr is evaluated for every key that is neither
\* excluded nor private, so a raising property makes the call raise.
as_dict(o, exclude) ==
    LET tried == {key \in Dir(o) : key \notin exclude /\ key \notin PrivateNames}
        bad == {key \in tried : GetAttr(o, key).err # "none"}
    IN  IF bad # {}
        THEN Raise(GetAttr(o, CHOOSE key \in bad : TRUE).err)
        ELSE Return([key \in {k \in tried : ~Callable(o, k)} |-> V(o, key)])

\* time.strftime("%H:%M:%S") as the digits HHMMSS.
strftime(t) ==
    <<t[1] \div 10, t[1] % 10, t[2] \div 10, t[2] % 10, t[3] \div 10, t[3] % 10>>

\* ExerciseStats.json: the mapping that json.dumps serializes.
json(o) ==
    LET d == as_dict(o, {})
    IN  IF d.err # "none" THEN d
        ELSE Return([d.val EXCEPT !["time"] = strftime(d.val["time"])])

\* summarize: every class formats its templates with as_dict().
summarize(o) == as_dict(o, {})

(***************************************************************************)
(* Command line: type parsers, parse_args and exec.  A string is a         *)
(* sequence of one-character strings.                                      *)
(***************************************************************************)
Digits == {"0", "1", "2", "3", "4", "5", "6", "7", "8", "9"}

DigitValue(c) ==
    CASE c = "0" -> 0 [] c = "1" -> 1 [] c = "2" -> 2 [] c = "3" -> 3 [] c = "4" -> 4
      [] c = "5" -> 5 [] c = "6" -> 6 [] c = "7" -> 7 [] c = "8" -> 8 [] c = "9" -> 9

\* percentage.replace("%", ""): every occurrence is removed.
RemovePercent(str) == SelectSeq(str, LAMBDA c : c # "%")

\* The decimal literals float() accepts over the characters modelled: an
\* optional sign, digits with at most one decimal point, at least one digit.
Unsigned(str) == IF str # <<>> /\ str[1] \in {"-", "+"} THEN Tail(str) ELSE str

IsFloatLiteral(str) ==
    /\ \A i \in 1..Len(Unsigned(str)) : Unsigned(str)[i] \in Digits \cup {"."}
    /\ Cardinality({i \in 1..Len(Unsigned(str)) : Unsigned(str)[i] = "."}) <= 1
    /\ \E i \in 1..Len(Unsigned(str)) : Unsigned(str)[i] \in Digits

\* The digits of str[1..i] read as one integer, the decimal point skipped.
RECURSIVE DigitsNumber(_, _)
DigitsNumber(str, i) ==
    IF i = 0 THEN 0
    ELSE IF str[i] = "." THEN DigitsNumber(str, i - 1)
    ELSE 10 * DigitsNumber(str, i - 1) + DigitValue(str[i])

\* 10 to the number of digits of str after position i.
RECURSIVE Scale(_, _)
Scale(str, i) == IF i >= Len(str) THEN 1 ELSE 10 * Scale(str, i + 1)

PointAt(str) ==
    IF \E i \in 1..Len(str) : str[i] = "."
    THEN CHOOSE i \in 1..Len(str) : str[i] = "."
    ELSE Len(str)

\* str.strip(): the spaces around str are dropped.
Strip(str) ==
    IF \A i \in 1..Len(str) : str[i] = " " THEN <<>>
    ELSE SubSeq(str, CHOOSE i \in 1..Len(str) :
                         str[i] # " " /\ \A j \in 1..(i - 1) : str[j] = " ",
                     CHOOSE i \in 1..Len(str) :
                         str[i] # " " /\ \A j \in (i + 1)..Len(str) : str[j] = " ")

\* The number a literal without surrounding spaces denotes.
FloatLiteral(str) ==
    IF ~IsFloatLiteral(str) THEN Raise("ValueError")
    ELSE Return(Q((IF str[1] = "-" THEN -1 ELSE 1)
                      * DigitsNumber(Unsigned(str), Len(Unsigned(str))),
                  Scale(Unsigned(str), PointAt(Unsigned(str)))))

\* float(str): spaces around the literal are accepted.
float(str) == FloatLiteral(Strip(str))

\* What parse_percentage does with the outcome of float().
CheckedPercentage(parsed) ==
    IF parsed.err # "none" THEN Raise("CoreValueError")
    ELSE IF ~(QLe(QInt(0), parsed.val) /\ QLe(parsed.val, QInt(100)))
    THEN Raise("CoreValueError")
    ELSE parsed

\* parse_percentage of a string.
parse_percentage(percentage) == CheckedPercentage(float(RemovePercent(percentage)))

\* TIME_UNITS: the seconds of every unit name.
TIME_UNITS ==
    [unit \in {<<"h">>, <<"h", "o", "u", "r">>, <<"h", "o", "u", "r", "s">>,
               <<"m">>, <<"m", "i", "n", "u", "t", "e">>,
               <<"m", "i", "n", "u", "t", "e", "s">>,
               <<"s">>, <<"s", "e", "c", "o", "n", "d">>,
               <<"s", "e", "c", "o", "n", "d", "s">>} |->
        IF unit[1] = "h" THEN 3600 ELSE IF unit[1] = "m" THEN 60 ELSE 1]

\* The classes [0-9,. ] and [a-zA-Z ] of the two regular expressions.
NumberChars == Digits \cup {",", ".", " "}

Letters ==
    {"a", "b", "c", "d", "e", "f", "g", "h", "i", "j", "k", "l", "m", "n", "o", "p",
     "q", "r", "s", "t", "u", "v", "w", "x", "y", "z", "A", "B", "C", "D", "E", "F",
     "G", "H", "I", "J", "K", "L", "M", "N", "O", "P", "Q", "R", "S", "T", "U", "V",
     "W", "X", "Y", "Z"}

\* re.sub(r"^[0-9,. ]*", "", time_str): the longest leading run is removed.
UnitChars(time_str) ==
    IF \A i \in 1..Len(time_str) : time_str[i] \in NumberChars THEN <<>>
    ELSE SubSeq(time_str,
                CHOOSE i \in 1..Len(time_str) :
                    /\ time_str[i] \notin NumberChars
                    /\ \A j \in 1..(i - 1) : time_str[j] \in NumberChars,
                Len(time_str))

\* re.sub(r"[a-zA-Z ]*$", "", time_str).replace(" ", ""): the longest
\* trailing run is removed, then every space.
NumberPart(time_str) ==
    IF \A i \in 1..Len(time_str) : time_str[i] \in Letters \cup {" "} THEN <<>>
    ELSE SelectSeq(SubSeq(time_str, 1,
                          CHOOSE i \in 1..Len(time_str) :
                              /\ time_str[i] \notin Letters \cup {" "}
                              /\ \A j \in (i + 1)..Len(time_str) :
                                     time_str[j] \in Letters \cup {" "}),
                   LAMBDA c : c # " ")

\* int(x) of a float: the fraction is cut off, towards zero.
int(x) == IF x[1] >= 0 THEN x[1] \div x[2] ELSE -((-x[1]) \div x[2])

\* time(hour=hours, minute=minutes, second=seconds) of datetime.
time(hours, minutes, seconds) ==
    IF hours \in 0..23 /\ minutes \in 0..59 /\ seconds \in 0..59
    THEN Return(<<hours, minutes, seconds>>)
    ELSE Raise("ValueError")

\* _seconds_to_time: divmod(int(total_seconds * 1000), 1000) gives back
\* total_seconds, a whole number.
_seconds_to_time(total_seconds) ==
    time(total_seconds \div 3600, (total_seconds % 3600) \div 60,
         (total_seconds % 3600) % 60)

\* The else branch with the product rounded to the nearest second.
TimeOfNumber_rounded(number, unit) ==
    IF number.err # "none" THEN number
    ELSE _seconds_to_time(int(QAdd(QMul(number.val, QInt(TIME_UNITS[unit])), Q(1, 2))))

\* The else branch of parse_time_with_unit: float(numbers) may raise.
TimeOfNumber(number, unit) ==
    IF number.err # "none" THEN number
    ELSE _seconds_to_time(int(QMul(number.val, QInt(TIME_UNITS[unit]))))

\* parse_time_with_unit
parse_time_with_unit(time_str) ==
    IF NumberPart(time_str) = <<>> \/ UnitChars(time_str) \notin DOMAIN TIME_UNITS
    THEN Raise("CoreValueError")
    ELSE TimeOfNumber(float(NumberPart(time_str)), UnitChars(time_str))

\* The decimal digits of a natural number.
RECURSIVE Decimal(_)
Decimal(n) ==
    IF n < 10 THEN <<CHOOSE c \in Digits : DigitValue(c) = n>>
    ELSE Append(Decimal(n \div 10), CHOOSE c \in Digits : DigitValue(c) = n % 10)

\* The format 02d: zero padded to two characters, the sign included.
Format02d(n) ==
    IF n < 0 THEN <<"-">> \o Decimal(-n)
    ELSE IF n < 10 THEN <<"0">> \o Decimal(n)
    ELSE Decimal(n)

\* The string float_to_iso formats from hours, whole_hours and minutes.
IsoOfHours(hours, whole_hours, minutes) ==
    Format02d(whole_hours) \o <<":">> \o Format02d(minutes) \o <<":">>
        \o Format02d(int(QMul(QSub(QSub(hours, QInt(whole_hours)), Q(minutes, 60)),
                              QInt(3600))))

\* float_to_iso: a string float() rejects is returned as it is.
float_to_iso(time_str) ==
    IF float(time_str).err # "none" THEN time_str
    ELSE IsoOfHours(float(time_str).val, int(float(time_str).val),
                    int(QMul(QSub(float(time_str).val,
                                  QInt(int(float(time_str).val))),
                             QInt(60))))

\* The number of the two digits at str[i], str[i + 1].
TwoDigits(str, i) == 10 * DigitValue(str[i]) + DigitValue(str[i + 1])

\* time.fromisoformat over digits, ":", "." and ",", as the parser of
\* hours, minutes, seconds and fraction reads a string: up to three fields
\* of two digits, all of them separated by ":" or none of them, then an
\* optional fraction of a second, which the time modelled does not keep.
\* IsoFraction: the characters from position p on are the fraction.
IsoFraction(str, p, vals) ==
    IF \A k \in p..Len(str) : str[k] \in Digits
    THEN time(vals[1], IF Len(vals) >= 2 THEN vals[2] ELSE 0,
              IF Len(vals) >= 3 THEN vals[3] ELSE 0)
    ELSE Raise("ValueError")

\* IsoField: field i (0, 1 or 2) starts at position p; sep tells whether a
\* ":" followed the hours.
RECURSIVE IsoField(_, _, _, _, _)
\* IsoAfterField: position q follows the two digits of field i.
RECURSIVE IsoAfterField(_, _, _, _, _)
IsoAfterField(str, i, q, sep, vals) ==
    IF q > Len(str)
    THEN time(vals[1], IF Len(vals) >= 2 THEN vals[2] ELSE 0,
              IF Len(vals) >= 3 THEN vals[3] ELSE 0)
    ELSE IF q = Len(str) THEN Raise("ValueError")
    ELSE IF sep /\ str[q] = ":"
    THEN IF i = 2 THEN IsoFraction(str, q + 1, vals)
         ELSE IsoField(str, i + 1, q + 1, sep, vals)
    ELSE IF str[q] \in {".", ","} THEN IsoFraction(str, q + 1, vals)
    ELSE IF ~sep
    THEN IF i = 2 THEN IsoFraction(str, q, vals) ELSE IsoField(str, i + 1, q, sep, vals)
    ELSE Raise("ValueError")

IsoField(str, i, p, sep, vals) ==
    IF ~(p + 1 <= Len(str) /\ str[p] \in Digits /\ str[p + 1] \in Digits)
    THEN Raise("ValueError")
    ELSE IsoAfterField(str, i, p + 2,
                       IF i = 0 THEN p + 2 <= Len(str) /\ str[p + 2] = ":" ELSE sep,
                       Append(vals, TwoDigits(str, p)))

fromisoformat(str) == IsoField(str, 0, 1, FALSE, <<>>)

\* What parse_iso_time does with the outcome of time.fromisoformat.
IsoChecked(parsed) ==
    IF parsed.err = "ValueError" THEN Raise("CoreValueError") ELSE parsed

\* parse_iso_time
parse_iso_time(time_str) == IsoChecked(fromisoformat(float_to_iso(time_str)))

\* try: return unit; except CoreValueError: return parse_iso_time(time_str)
UnitOrIso(unit, time_str) ==
    IF unit.err = "CoreValueError" THEN parse_iso_time(time_str) ELSE unit

\* parse_time
parse_time(time_str) == UnitOrIso(parse_time_with_unit(time_str), time_str)

\* A command line: argv = [weight_kg, distance_km, time, rest, air, json,
\* loglevel, drafting]; rest holds the optional positionals ascent_m and
\* descent_m that were given, air / loglevel / drafting hold the option's
\* value when the option was given (<<>> otherwise).  The numeric
\* positionals are the values float() made of them and time the value
\* parse_time made of an iso string.
Option(given, default) == IF given = <<>> THEN default ELSE given[1]

\* CoreParser.parse_args: the namespace as a mapping.
CoreParser_parse_args(argv) ==
    [k \in {"weight_kg", "distance_km", "time", "ascent_m", "descent_m",
            "air_density_kgpm3", "json", "loglevel", "distance_m"} |->
        CASE k = "weight_kg" -> argv.weight_kg
          [] k = "distance_km" -> argv.distance_km
          [] k = "time" -> argv.time
          [] k = "ascent_m" ->
               IF Len(argv.rest) >= 1 THEN argv.rest[1]
               ELSE ClassAttr("ExerciseStats", "ascent_m")
          [] k = "descent_m" ->
               IF Len(argv.rest) >= 2 THEN argv.rest[2]
               ELSE ClassAttr("ExerciseStats", "descent_m")
          [] k = "air_density_kgpm3" ->
               Option(argv.air, ClassAttr("ExerciseStats", "air_density_kgpm3"))
          [] k = "json" -> argv.json
          [] k = "loglevel" -> Option(argv.loglevel, "WARNING")
          [] k = "distance_m" -> QMul(argv.distance_km, QInt(1000))]

\* The namespace of CyclingParser given the outcome of the type parser of
\* the drafting option: drafting and fraction_spend_drafting are added.
WithDrafting(ns, drafting) ==
    IF drafting.err # "none" THEN drafting
    ELSE Return([k \in DOMAIN ns \cup {"drafting", "fraction_spend_drafting"} |->
                    IF k = "drafting" THEN drafting.val
                    ELSE IF k = "fraction_spend_drafting"
                    THEN QMul(drafting.val, Q(1, 100))
                    ELSE ns[k]])

\* CyclingParser.parse_args; the default 0 of the option is not parsed.
CyclingParser_parse_args(argv) ==
    WithDrafting(CoreParser_parse_args(argv),
                 IF argv.drafting = <<>> THEN Return(QInt(0))
                 ELSE parse_percentage(argv.drafting[1]))

\* parser.parse_args() of the parser that goes with cls.
parse_args(cls, argv) ==
    IF cls = "CyclingStats" THEN CyclingParser_parse_args(argv)
    ELSE Return(CoreParser_parse_args(argv))

\* The outcome of exec: the exception raised ("none"), the returned text
\* (the mapping it is formatted from), the namespace, the instance dictionary
\* of result when it was constructed (<<>> before), and the warnings logged.
ExecOutcome(raised, text, namespace, dict, logged) ==
    [err |-> raised, val |-> text, ns |-> namespace, attrs |-> dict,
     warnings |-> logged]

\* return result.json(indent=4) if args.json else result.summarize()
exec_return(ns, upd, out) ==
    ExecOutcome(out.err, out.val, ns, upd.attrs, upd.warnings)

\* result.update() and the return statement.
exec_update(cls, ns, upd) ==
    IF upd.err # "none" THEN ExecOutcome(upd.err, <<>>, ns, upd.attrs, upd.warnings)
    ELSE exec_return(ns, upd,
                     IF ns["json"] THEN json([cls |-> cls, attrs |-> upd.attrs])
                     ELSE summarize([cls |-> cls, attrs |-> upd.attrs]))

\* result = cls(every entry of vars(args) as a keyword)
exec_construct(cls, ns, result) ==
    IF result.err # "none" THEN ExecOutcome(result.err, <<>>, ns, <<>>, {})
    ELSE exec_update(cls, ns, update([cls |-> cls, attrs |-> result.val]))

exec_parsed(cls, args) ==
    IF args.err # "none" THEN ExecOutcome(args.err, <<>>, <<>>, <<>>, {})
    ELSE exec_construct(cls, args.val, init(cls, args.val))

\* exec(parser, cls) on the command line argv.
exec(cls, argv) == exec_parsed(cls, parse_args(cls, argv))

\* What except_hook logs: the level and whether exc_info (the traceback) is
\* passed to the logging call.
Logged(level, traceback) == [level |-> level, exc_info |-> traceback]

\* except_hook of sportcalc._core.execute: an instance of one of the known
\* exceptions is logged as an error.
except_hook(exctype) ==
    IF \E exception \in {"CoreException", "KeyboardInterrupt"} :
           issubclass(exctype, exception)
    THEN Logged("ERROR", FALSE)
    ELSE Logged("CRITICAL", TRUE)

\* except_hook of corecalc.execute: known_exceptions is the empty tuple and
\* the test is exctype in known_exceptions.
corecalc_except_hook(exctype) ==
    IF exctype \in {} THEN Logged("ERROR", FALSE) ELSE Logged("CRITICAL", TRUE)

(***************************************************************************)
(* The state machine.  recs[r] is the record r:                            *)
(*   phase  "absent" or "constructed"                                      *)
(*   cls, attrs  its class and instance dictionary                         *)
(*   last, arg   the last operation called on it and its argument          *)
(*   err, ret    the exception that call raised ("none") and what it       *)
(*               returned (<<>> for None)                                  *)
(*   warned  whether that call logged a warning                            *)
(*   upd     how the latest update() on it ended: "never" called, "ok",    *)
(*           or the exception it raised                                    *)
(* log is the set of warnings logged so far (the speed reported and the   *)
(* range named in the message); call is the last direct call of a pure     *)
(* function.                                                               *)
(***************************************************************************)
Absent ==
    [phase |-> "absent", cls |-> "none", attrs |-> <<>>, last |-> "none",
     arg |-> {}, err |-> "none", ret |-> <<>>, warned |-> FALSE, upd |-> "never"]

NoCall == [fn |-> "none", args |-> <<>>, err |-> "none", ret |-> <<>>, warn |-> FALSE]

Init ==
    /\ recs = [r \in RecIds |-> Absent]
    /\ log = {}
    /\ call = NoCall

Obj(r) == [cls |-> recs[r].cls, attrs |-> recs[r].attrs]

Kw(d, t, w, a, de, rho) ==
    [k \in RequiredArgs |->
        CASE k = "distance_m" -> d
          [] k = "time" -> t
          [] k = "weight_kg" -> w
          [] k = "ascent_m" -> a
          [] k = "descent_m" -> de
          [] k = "air_density_kgpm3" -> rho]

\* The keyword mappings a caller passes to cls.
Kwargs(cls) ==
    LET core == {Kw(d, t, w, a, de, rho) :
                    d \in Distances(cls), t \in Times, w \in Weights, a \in Ascents,
                    de \in Descents, rho \in AirDensities}
    IN  IF cls = "CyclingStats"
        THEN {SetAttr(kw, "fraction_spend_drafting", f) : kw \in core, f \in Fractions}
        ELSE core

\* result = cls(keywords kw)
Construct(r, cls, kw) ==
    /\ recs[r].phase = "absent"
    /\ LET out == init(cls, kw)
       IN  recs' = [recs EXCEPT ![r] =
                IF out.err # "none"
                THEN [@ EXCEPT !.last = "init", !.err = out.err]
                ELSE [phase |-> "constructed", cls |-> cls, attrs |-> out.val,
                      last |-> "init", arg |-> {}, err |-> "none", ret |-> <<>>,
                      warned |-> FALSE, upd |-> "never"]]
    /\ UNCHANGED <<log, call>>

\* update() that binds the fields on the class: every record of the class
\* of r sees them.
Updated_on_class(r, out) ==
    /\ recs' = [q \in RecIds |->
                   IF q = r
                   THEN [recs[q] EXCEPT !.attrs = out.attrs, !.last = "update",
                                        !.arg = {}, !.err = out.err, !.ret = <<>>,
                                        !.warned = out.warnings # {},
                                        !.upd = IF out.err = "none" THEN "ok" ELSE out.err]
                   ELSE IF recs[q].phase = "constructed" /\ recs[q].cls = recs[r].cls
                   THEN [recs[q] EXCEPT !.attrs =
                            [k \in DOMAIN out.attrs |->
                                IF k \in DOMAIN recs[q].attrs THEN recs[q].attrs[k]
                                ELSE out.attrs[k]]]
                   ELSE recs[q]]
    /\ log' = log \cup out.warnings

\* The record r and the log after an update() pass that ended as out.
Updated(r, out) ==
    /\ recs' = [recs EXCEPT ![r] =
          [@ EXCEPT !.attrs = out.attrs, !.last = "update", !.arg = {},
                    !.err = out.err, !.ret = <<>>, !.warned = out.warnings # {},
                    !.upd = IF out.err = "none" THEN "ok" ELSE out.err]]
    /\ log' = log \cup out.warnings

\* result.update()
Update(r) ==
    /\ recs[r].phase = "constructed"
    /\ Updated(r, update(Obj(r)))
    /\ UNCHANGED call

\* A call that reads the record and returns a value or raises.
Read(r, op, arg, out) ==
    /\ recs[r].phase = "constructed"
    /\ recs' = [recs EXCEPT ![r] =
            [@ EXCEPT !.last = op, !.arg = arg, !.err = out.err, !.ret = out.val,
                      !.warned = FALSE]]
    /\ UNCHANGED <<log, call>>

Excludes == {{}, {"time_s", "time_h"}}

AsDict(r, exclude) == Read(r, "as_dict", exclude, as_dict(Obj(r), exclude))

Json(r) == Read(r, "json", {}, json(Obj(r)))

Summarize(r) == Read(r, "summarize", {}, summarize(Obj(r)))

\* result.time_s, result.time_h, result.distance_km
GetProperty(r, name) == Read(r, name, {}, GetAttr(Obj(r), name))

Next ==
    \E r \in SpecIds :
        \/ /\ recs[r].phase = "absent"
           /\ \E cls \in Classes : \E kw \in Kwargs(cls) : Construct(r, cls, kw)
        \/ Update(r)
        \/ \E exclude \in Excludes : AsDict(r, exclude)
        \/ Json(r)
        \/ Summarize(r)
        \/ \E name \in PropertyNames : GetProperty(r, name)

Spec == Init /\ [][Next]_vars

(***************************************************************************)
(* Two records side by side: every operation on either of them, in any     *)
(* order, on a small grid of inputs.                                       *)
(***************************************************************************)
TwoClasses == {"RunningStats", "CyclingStats"}

TwoKwargs(cls) ==
    {kw \in Kwargs(cls) :
        /\ kw["distance_m"] \in {Q(4800, 1), Q(16100, 1), Q(18000, 1), Q(36000, 1)}
        /\ kw["time"] = <<1, 0, 0>>
        /\ kw["weight_kg"] = Q(70, 1)
        /\ kw["ascent_m"] = Q(100, 1)
        /\ cls = "CyclingStats" => kw["fraction_spend_drafting"] = Q(0, 1)}

NextTwo ==
    \E r \in RecIds :
        \/ /\ recs[r].phase = "absent"
           /\ \E cls \in TwoClasses : \E kw \in TwoKwargs(cls) : Construct(r, cls, kw)
        \/ Update(r)
        \/ \E exclude \in Excludes : AsDict(r, exclude)
        \/ Json(r)
        \/ Summarize(r)

SpecTwo == Init /\ [][NextTwo]_vars

(***************************************************************************)
(* update() called again and again on two records of any class, with       *)
(* as_dict() in between; the calls of update() on each record are counted. *)
(***************************************************************************)
\* update() is called at most MaxUpdates times on a record.
MaxUpdates == 2

AgainKwargs(cls) ==
    {kw \in Kwargs(cls) :
        /\ kw["distance_m"] \in {Q(4800, 1), Q(10000, 1), Q(18000, 1)}
        /\ kw["time"] \in {<<0, 0, 0>>, <<1, 0, 0>>}
        /\ kw["weight_kg"] = Q(70, 1)
        /\ kw["ascent_m"] = Q(100, 1)
        /\ kw["descent_m"] = Q(100, 1)
        /\ cls = "CyclingStats" => kw["fraction_spend_drafting"] = Q(0, 1)}

\* How many times update() was called on record r.
UpdateCount(r) == IF call.fn = "update" THEN call.ret[r] ELSE 0

\* result.update(), counted
UpdateAgain(r) ==
    /\ recs[r].phase = "constructed"
    /\ UpdateCount(r) < MaxUpdates
    /\ Updated(r, update(Obj(r)))
    /\ call' = [fn |-> "update", args |-> <<>>, err |-> "none",
                ret |-> [q \in RecIds |-> IF q = r THEN UpdateCount(q) + 1
                                          ELSE UpdateCount(q)],
                warn |-> FALSE]

NextAgain ==
    \E r \in RecIds :
        \/ /\ recs[r].phase = "absent"
           /\ \E cls \in Classes : \E kw \in AgainKwargs(cls) : Construct(r, cls, kw)
        \/ UpdateAgain(r)
        \/ AsDict(r, {})

SpecAgain == Init /\ [][NextAgain]_vars

(***************************************************************************)
(* Direct calls of the pure functions, with arguments drawn from grids.    *)
(***************************************************************************)
\* Speeds 0, 1/2, 1, ... up to MaxHalfKmh / 2 km/h.
MaxHalfKmh == 60

\* The <<hour, minute, second>> values passed to datetime2seconds.
ConvTimes == {<<h, m, s>> : h \in {0, 1, 23}, m \in {0, 1, 30, 59}, s \in {0, 1, 30, 59}}

\* Grid speeds and the breakpoints of the table themselves.
Speeds(cls) ==
    {Q(k, 2) : k \in 0..MaxHalfKmh}
    \cup {METS_KM_H(cls)[i] : i \in 1..Len(METS_KM_H(cls))}

Call_datetime2seconds(dt, check) ==
    /\ LET out == datetime2seconds(dt, check)
       IN  call' = [fn |-> "datetime2seconds", args |-> <<dt, check>>,
                    err |-> out.err, ret |-> out.val, warn |-> FALSE]
    /\ UNCHANGED <<recs, log>>

Call_calc_mets_kcal_kg_h(cls, kmph) ==
    /\ LET out == calc_mets_kcal_kg_h(cls, kmph)
       IN  call' = [fn |-> "calc_mets_kcal_kg_h", args |-> <<cls, kmph>>,
                    err |-> "none", ret |-> out.val, warn |-> out.warn]
    /\ UNCHANGED <<recs, log>>

\* Positive amounts of energy: whole, in thirds and in thousandths.
Energies == {Q(k, d) : k \in 1..MaxHalfKmh, d \in {1, 3, 1000}}

\* The call fn(x) of a unit conversion returned y.
Converted(fn, x, y) ==
    /\ call' = [fn |-> fn, args |-> <<x>>, err |-> "none", ret |-> y, warn |-> FALSE]
    /\ UNCHANGED <<recs, log>>

Call_kcal2j(x) == Converted("kcal2j", x, kcal2j(x))

Call_j2kcal(x) == Converted("j2kcal", x, j2kcal(x))

Call_j2kj(x) == Converted("j2kj", x, j2kj(x))

NextFn ==
    \/ \E dt \in ConvTimes : \E check \in BOOLEAN : Call_datetime2seconds(dt, check)
    \/ \E cls \in MetsSpeedClasses : \E kmph \in Speeds(cls) :
          Call_calc_mets_kcal_kg_h(cls, kmph)
    \/ \E x \in Energies : Call_kcal2j(x) \/ Call_j2kcal(x) \/ Call_j2kj(x)

SpecFn == Init /\ [][NextFn]_vars

(***************************************************************************)
(* The command line entry points and direct calls of the constructors and  *)
(* of parse_percentage.                                                    *)
(***************************************************************************)
\* The longest string passed to parse_percentage.
MaxPctLen == 4

PctChars == {"0", "1", "5", ".", "%", "-", "a"}

RECURSIVE Strings(_)
Strings(n) ==
    IF n = 0 THEN {<<>>}
    ELSE Strings(n - 1) \cup {Append(str, c) : str \in Strings(n - 1), c \in PctChars}

\* The longest number part of a time string.
MaxNumLen == 3

TimeNumChars == {"0", "1", "5", ".", ","}

RECURSIVE NumStrings(_)
NumStrings(n) ==
    IF n = 0 THEN {<<>>}
    ELSE NumStrings(n - 1)
             \cup {Append(str, c) : str \in NumStrings(n - 1), c \in TimeNumChars}

\* What follows the number part: a unit, nothing, or something else.
TimeSuffixes ==
    DOMAIN TIME_UNITS
        \cup {<<>>, <<"s", "1">>, <<"s", "m">>, <<"m", "s">>, <<"_", "1", " ", "h">>,
              <<"x">>, <<"s", " ">>}

\* Spaces inside or before the number, and strings in iso format.
OtherTimeStrings ==
    {<<" ", "1", "s">>, <<"1", " ", "1", "s">>, <<"1", " ", ".", " ", "5", " ", "s">>,
     <<"0", "1", ":", "3", "0", ":", "0", "0">>, <<"0", "0", ":", "3", "0">>,
     <<"2", "4", ":", "0", "0", ":", "0", "0">>, <<"1", ":", "3", "0">>,
     <<"0", "1", ":", "3", "0", ":", "6", "0">>, <<"2", "3", ":", "5", "9", ":", "5", "9">>}

TimeStrings ==
    {num \o sp \o suf : num \in NumStrings(MaxNumLen), sp \in {<<>>, <<" ">>},
                        suf \in TimeSuffixes}
        \cup OtherTimeStrings

\* The classes that have a console script.
CliClasses == MetsSpeedClasses \cup {"CyclingStats"}

DraftingOptions ==
    {<<>>, <<<<"0">>>>, <<<<"5", "0", "%">>>>, <<<<"1", "0", "0">>>>,
     <<<<"1", "0", "1">>>>, <<<<"a">>>>}

Argvs(cls) ==
    [weight_kg : Weights,
     distance_km : {QDiv(d, QInt(1000)) : d \in Distances(cls)},
     time : Times,
     rest : {<<>>, <<Q(100, 1)>>, <<Q(100, 1), Q(100, 1)>>, <<Q(100, 1), Q(0, 1)>>},
     air : {<<>>, <<Q(1225, 1000)>>},
     json : BOOLEAN,
     loglevel : {<<>>, <<"DEBUG">>},
     drafting : IF cls = "CyclingStats" THEN DraftingOptions ELSE {<<>>}]

\* A complete keyword mapping and the keys a caller may leave out or add.
FullKw ==
    SetAttr(Kw(Q(18000, 1), <<1, 0, 0>>, Q(80, 1), Q(100, 1), Q(100, 1), Q(1293, 1000)),
            "fraction_spend_drafting", Q(1, 1))

ExtraKw == [k \in {"json", "loglevel"} |-> IF k = "json" THEN FALSE ELSE "WARNING"]

\* The keyword mappings of the direct constructor calls: every subset of the
\* parameters, with or without keys no constructor names.
InitKwargs ==
    {[k \in keys |-> FullKw[k]] : keys \in SUBSET DOMAIN FullKw}
    \cup {[k \in keys \cup DOMAIN ExtraKw |->
              IF k \in DOMAIN ExtraKw THEN ExtraKw[k] ELSE FullKw[k]] :
          keys \in SUBSET DOMAIN FullKw}

\* The one call fn(args) of a process ended as out; the log holds the
\* warnings of this call.
Called(fn, args, out, warnings) ==
    /\ call = NoCall
    /\ call' = [fn |-> fn, args |-> args, err |-> out.err, ret |-> out.val,
                warn |-> warnings # {}]
    /\ log' = warnings
    /\ UNCHANGED recs

\* The outcome of exec as the outcome of a call: what it returned together
\* with the namespace and the instance dictionary of result.
ExecCalled(res) ==
    [err |-> res.err, val |-> [out |-> res.val, ns |-> res.ns, attrs |-> res.attrs]]

Call_exec(cls, argv) ==
    Called("exec", <<cls, argv>>, ExecCalled(exec(cls, argv)), exec(cls, argv).warnings)

Call_init(cls, kw) == Called("init", <<cls, kw>>, init(cls, kw), {})

Call_parse_percentage(str) ==
    Called("parse_percentage", <<str>>, parse_percentage(str), {})

Call_parse_time_with_unit(str) ==
    Called("parse_time_with_unit", <<str>>, parse_time_with_unit(str), {})

Call_parse_time(str) == Called("parse_time", <<str>>, parse_time(str), {})

\* The uncaught exception of a process reaches sys.excepthook, which exec
\* set to the except_hook of its module.
Call_except_hook(module, exctype) ==
    Called("except_hook", <<module, exctype>>,
           Return(IF module = "corecalc.execute" THEN corecalc_except_hook(exctype)
                  ELSE except_hook(exctype)), {})

NextCli ==
    \/ \E cls \in CliClasses : \E argv \in Argvs(cls) : Call_exec(cls, argv)
    \/ \E cls \in {"ExerciseStats", "CyclingStats"} : \E kw \in InitKwargs :
          Call_init(cls, kw)
    \/ \E str \in Strings(MaxPctLen) : Call_parse_percentage(str)
    \/ \E str \in TimeStrings : Call_parse_time_with_unit(str)
    \/ \E str \in TimeStrings : Call_parse_time(str)
    \/ \E module \in {"corecalc.execute", "sportcalc._core.execute"} :
          \E exctype \in DOMAIN ExceptionBase : Call_except_hook(module, exctype)

SpecCli == Init /\ [][NextCli]_vars

(***************************************************************************)
(* A run of exec, statement by statement.  The record result is record 1;  *)
(* call holds the run: its class and command line, the exception that      *)
(* ended it ("none"), and in ret the position pc in ExecStatements, the     *)
(* statements executed so far, the namespace and the text returned (the     *)
(* mapping it is formatted from).                                           *)
(***************************************************************************)
\* exec with the return statement before result.update().
ExecStatements_return_first ==
    <<"excepthook", "parse_args", "construct", "return", "update">>

\* The statements of exec that act on the run, in the order of the source.
ExecStatements == <<"excepthook", "parse_args", "construct", "update", "return">>

RunArgvs(cls) == {argv \in Argvs(cls) : argv.air = <<>> /\ argv.loglevel = <<>>}

Running == call.fn = "run" /\ call.err = "none"

\* The statement the run executes next ("end" after the last one).
Statement ==
    IF call.ret.pc <= Len(ExecStatements) THEN ExecStatements[call.ret.pc] ELSE "end"

\* The run after the statement at pc ended as raised, with namespace ns and
\* returned text out.
Stepped(raised, namespace, text) ==
    call' = [call EXCEPT !.err = raised,
                         !.ret = [pc |-> @.pc + 1,
                                  done |-> Append(@.done, ExecStatements[@.pc]),
                                  ns |-> namespace, out |-> text]]

\* sys.excepthook = except_hook: the start of a process.
Run_excepthook(cls, argv) ==
    /\ call = NoCall
    /\ ExecStatements[1] = "excepthook"
    /\ call' = [fn |-> "run", args |-> <<cls, argv>>, err |-> "none",
                ret |-> [pc |-> 2, done |-> <<"excepthook">>, ns |-> <<>>, out |-> <<>>],
                warn |-> FALSE]
    /\ UNCHANGED <<recs, log>>

\* args = parser.parse_args()
Run_parse_args ==
    /\ Running /\ Statement = "parse_args"
    /\ Stepped(parse_args(call.args[1], call.args[2]).err,
               parse_args(call.args[1], call.args[2]).val, <<>>)
    /\ UNCHANGED <<recs, log>>

\* The record 1 after the constructor ended as made.
Constructed(cls, made) ==
    recs' = [recs EXCEPT ![1] =
                IF made.err # "none"
                THEN [@ EXCEPT !.last = "init", !.err = made.err]
                ELSE [phase |-> "constructed", cls |-> cls, attrs |-> made.val,
                      last |-> "init", arg |-> {}, err |-> "none", ret |-> <<>>,
                      warned |-> FALSE, upd |-> "never"]]

\* result = cls(every entry of vars(args) as a keyword); a local name read
\* before its assignment raises UnboundLocalError.
Run_construct ==
    /\ Running /\ Statement = "construct"
    /\ IF call.ret.ns = <<>>
       THEN Stepped("UnboundLocalError", <<>>, <<>>) /\ UNCHANGED recs
       ELSE /\ Stepped(init(call.args[1], call.ret.ns).err, call.ret.ns, <<>>)
            /\ Constructed(call.args[1], init(call.args[1], call.ret.ns))
    /\ UNCHANGED log

\* result.update()
Run_update ==
    /\ Running /\ Statement = "update"
    /\ IF recs[1].phase # "constructed"
       THEN Stepped("UnboundLocalError", call.ret.ns, <<>>) /\ UNCHANGED <<recs, log>>
       ELSE /\ Stepped(update(Obj(1)).err, call.ret.ns, <<>>)
            /\ Updated(1, update(Obj(1)))

\* The record 1 and the run after result.json or result.summarize ended
\* as out.
Returned(op, out) ==
    /\ Stepped(out.err, call.ret.ns, out.val)
    /\ recs' = [recs EXCEPT ![1] =
            [@ EXCEPT !.last = op, !.arg = {}, !.err = out.err, !.ret = out.val,
                      !.warned = FALSE]]

\* return result.json(indent=4) if args.json else result.summarize()
Run_return ==
    /\ Running /\ Statement = "return"
    /\ IF recs[1].phase # "constructed"
       THEN Stepped("UnboundLocalError", call.ret.ns, <<>>) /\ UNCHANGED recs
       ELSE IF call.ret.ns["json"] THEN Returned("json", json(Obj(1)))
       ELSE Returned("summarize", summarize(Obj(1)))
    /\ UNCHANGED log

NextRun ==
    \/ \E cls \in CliClasses : \E argv \in RunArgvs(cls) : Run_excepthook(cls, argv)
    \/ Run_parse_args
    \/ Run_construct
    \/ Run_update
    \/ Run_return

SpecRun == Init /\ [][NextRun]_vars

(***************************************************************************)
(* Properties.                                                             *)
(***************************************************************************)
\* The records Spec constructs that exist.
Live == {r \in RecIds : recs[r].phase = "constructed"}

\* hour*3600 + minute*60 + second of a time value.
Seconds(t) == t[1] * 3600 + t[2] * 60 + t[3]

\* C3: datetime2seconds(dt, check) returns hour*3600 + minute*60 + second;
\* with check = FALSE it never raises (0 for 00:00:00), and with check = TRUE
\* it raises CoreValueError exactly when the result is <= 0 and returns the
\* result otherwise.
C3_Datetime2secondsOptIn ==
    call.fn = "datetime2seconds" =>
        LET dt == call.args[1]
            check == call.args[2]
        IN  /\ ~check => call.err = "none" /\ call.ret = Seconds(dt)
            /\ check => (call.err = "CoreValueError" <=> Seconds(dt) <= 0)
            /\ check /\ Seconds(dt) > 0 => call.err = "none" /\ call.ret = Seconds(dt)

\* C3 witness: an unchecked conversion of 00:00:00 returned 0.
C3_Witness ==
    /\ call.fn = "datetime2seconds"
    /\ call.args = <<<<0, 0, 0>>, FALSE>>
    /\ call.err = "none"
    /\ call.ret = 0

\* The reference interpolation of C4 at x between xp[i] and xp[i+1], as the
\* weighted mean of the two METs values.
Lerp(x, xp, fp, i) ==
    QDiv(QAdd(QMul(fp[i], QSub(xp[i + 1], x)), QMul(fp[i + 1], QSub(x, xp[i]))),
         QSub(xp[i + 1], xp[i]))

ExampleKmh == <<Q(10, 1), Q(15, 1), Q(20, 1)>>

ExampleMets == <<Q(5, 1), Q(7, 1), Q(9, 1)>>

\* C4: calc_mets_kcal_kg_h(speed) is the clamped piecewise-linear
\* interpolation of the class's table: the METs value of a breakpoint at that
\* breakpoint, the linear interpolation between two adjacent breakpoints, the
\* first METs value below the first breakpoint and the last above the last;
\* on the table (10,15,20)/(5,7,9): 15 -> 7, 12.5 -> 6, 5 -> 5, 25 -> 9.
C4_MetsInterpolation ==
    /\ call.fn = "calc_mets_kcal_kg_h" =>
        LET xp == METS_KM_H(call.args[1])
            fp == METS_KCAL_KG_H(call.args[1])
            x == call.args[2]
            n == Len(xp)
        IN  /\ \A i \in 1..n : x = xp[i] => call.ret = fp[i]
            /\ \A i \in 1..(n - 1) :
                  QLt(xp[i], x) /\ QLt(x, xp[i + 1]) => call.ret = Lerp(x, xp, fp, i)
            /\ QLt(x, xp[1]) => call.ret = fp[1]
            /\ QLt(xp[n], x) => call.ret = fp[n]
    /\ interp(Q(15, 1), ExampleKmh, ExampleMets) = Q(7, 1)
    /\ interp(Q(25, 2), ExampleKmh, ExampleMets) = Q(6, 1)
    /\ interp(Q(5, 1), ExampleKmh, ExampleMets) = Q(5, 1)
    /\ interp(Q(25, 1), ExampleKmh, ExampleMets) = Q(9, 1)

\* C4 witness: the running table at 10 km/h, between 9.6 (10 METs) and 10.7
\* (11 METs), gives 10 + 4/11.
C4_Witness ==
    /\ call.fn = "calc_mets_kcal_kg_h"
    /\ call.args = <<"RunningStats", Q(10, 1)>>
    /\ call.ret = Q(114, 11)

\* The attributes a constructor binds on a record of class cls.
InitNames(cls) ==
    RequiredArgs \cup (IF cls = "CyclingStats" THEN {"fraction_spend_drafting"} ELSE {})

\* The attributes some update() assigns.
DerivedNames == {CyclingStats_update[i] : i \in 1..Len(CyclingStats_update)}
                \cup {MetsSpeedStats_update[i] : i \in 1..Len(MetsSpeedStats_update)}

ZeroDuration(r) == Seconds(recs[r].attrs["time"]) <= 0

\* C1: an invalid duration is raised at the point of use, not at
\* construction: construction never raises (also with elapsed time 00:00:00,
\* for every distance_m > 0), and on a record with elapsed time 00:00:00 every
\* update(), time_s and time_h raises CoreValueError, so that update() never
\* completes (speed, energy and power fields are requested through update()).
C1_InvalidDurationAtUse ==
    \A r \in RecIds :
        /\ recs[r].last = "init" => recs[r].phase = "constructed" /\ recs[r].err = "none"
        /\ r \in Live /\ ZeroDuration(r) =>
              /\ recs[r].last \in {"update", "time_s", "time_h"} =>
                    recs[r].err = "CoreValueError"
              /\ recs[r].upd \in {"never", "CoreValueError"}

\* C1 witness: a constructed record with elapsed time 00:00:00 whose update()
\* raised CoreValueError.
C1_Witness ==
    \E r \in Live :
        /\ recs[r].attrs["time"] = <<0, 0, 0>>
        /\ recs[r].last = "update"
        /\ recs[r].err = "CoreValueError"

\* C2: when update() fails with an invalid duration (any class), no derived
\* field has been assigned on the record, and as_dict() (default exclude),
\* json() and summarize() on it raise too and return no mapping.
C2_NoPartialResult ==
    \A r \in Live :
        recs[r].upd = "CoreValueError" =>
            /\ DOMAIN recs[r].attrs = InitNames(recs[r].cls)
            /\ DOMAIN recs[r].attrs \cap DerivedNames = {}
            /\ \/ recs[r].last \in {"json", "summarize"}
               \/ recs[r].last = "as_dict" /\ recs[r].arg = {}
               => recs[r].err = "CoreValueError" /\ recs[r].ret = <<>>

\* C2 witness: as_dict() called on a cycling record after its update() failed
\* with the invalid duration.
C2_Witness ==
    \E r \in Live :
        /\ recs[r].cls = "CyclingStats"
        /\ recs[r].upd = "CoreValueError"
        /\ recs[r].last = "as_dict"
        /\ recs[r].arg = {}
        /\ recs[r].err = "CoreValueError"

\* The attribute name of record r.
A(r, name) == recs[r].attrs[name]

\* Elapsed hours and km/h of record r, from its raw inputs.
InputHours(r) == Q(Seconds(A(r, "time")), 3600)

InputKmph(r) ==
    QDiv(QMul(A(r, "distance_m"), Q(36, 10)), QInt(Seconds(A(r, "time"))))

BelowTable(r) == QLt(InputKmph(r), METS_KM_H(recs[r].cls)[1])

AboveTable(r) ==
    QLt(METS_KM_H(recs[r].cls)[Len(METS_KM_H(recs[r].cls))], InputKmph(r))

\* C5: update() of a speed-table class logs the out-of-range warning if and
\* only if the speed is strictly below the first or strictly above the last
\* breakpoint; the warning is not fatal: out of range, update() completes and
\* stores the clamped boundary METs value and the energies derived from it.
C5_OutOfRangeWarning ==
    \A r \in Live :
        recs[r].cls \in MetsSpeedClasses /\ ~ZeroDuration(r) =>
            /\ recs[r].last = "update" =>
                  /\ recs[r].err = "none"
                  /\ recs[r].warned <=> (BelowTable(r) \/ AboveTable(r))
            /\ recs[r].upd \in {"never", "ok"}
            /\ recs[r].upd = "ok" /\ (BelowTable(r) \/ AboveTable(r)) =>
                  LET fp == METS_KCAL_KG_H(recs[r].cls)
                      clamped == IF BelowTable(r) THEN fp[1] ELSE fp[Len(fp)]
                      kcal == QMul(QMul(QSub(clamped, QInt(1)), A(r, "weight_kg")),
                                   InputHours(r))
                  IN  /\ A(r, "mets_kcal_kg_h") = clamped
                      /\ A(r, "energy_kcal") = kcal
                      /\ A(r, "energy_kj") = QDiv(QMul(kcal, QInt(4184)), QInt(1000))
                      /\ \E w \in log : w.speed = InputKmph(r)

\* C5 witness: an update() at exactly the last breakpoint of the walking
\* table (6.44 km/h) that completed without a warning.
C5_Witness ==
    \E r \in Live :
        /\ recs[r].cls = "WalkingStats"
        /\ InputKmph(r) = Q(644, 100)
        /\ recs[r].last = "update"
        /\ recs[r].err = "none"
        /\ ~recs[r].warned

\* C5 second case reached: an update() above the table logged the warning and
\* stored the last METs value.
C5_WitnessAbove ==
    \E r \in Live :
        /\ recs[r].cls = "RunningStats"
        /\ AboveTable(r)
        /\ recs[r].last = "update"
        /\ recs[r].warned
        /\ A(r, "mets_kcal_kg_h") = Q(16, 1)

\* C6: after update() of a METs-based record, energy_kcal =
\* (mets_kcal_kg_h - 1) * weight_kg * time_h with the mets_kcal_kg_h stored by
\* that update(): the resting MET is always subtracted.
C6_ActiveEnergy ==
    \A r \in Live :
        recs[r].cls \in MetsClasses /\ recs[r].upd = "ok" =>
            /\ A(r, "energy_kcal") =
                  QMul(QSub(A(r, "mets_kcal_kg_h"), QInt(1)),
                       QMul(A(r, "weight_kg"), InputHours(r)))
            /\ QLt(A(r, "energy_kcal"),
                   QMul(A(r, "mets_kcal_kg_h"), QMul(A(r, "weight_kg"), InputHours(r))))

\* C6 witness: 10 METs (running at 9.6 km/h), 70 kg, one hour: 630 kcal.
C6_Witness ==
    \E r \in Live :
        /\ recs[r].cls = "RunningStats"
        /\ recs[r].upd = "ok"
        /\ A(r, "mets_kcal_kg_h") = Q(10, 1)
        /\ A(r, "weight_kg") = Q(70, 1)
        /\ A(r, "time") = <<1, 0, 0>>
        /\ A(r, "energy_kcal") = Q(630, 1)

Cycling(r) == r \in Live /\ recs[r].cls = "CyclingStats" /\ recs[r].upd = "ok"

\* work_drag_j + work_ascent_j + work_roll_j of record r.
PositiveWork(r) ==
    QAdd(A(r, "work_drag_j"), QAdd(A(r, "work_ascent_j"), A(r, "work_roll_j")))

\* C7: energy_j = (work_drag_j + work_ascent_j + work_roll_j) /
\* (efficiency_human * efficiency_drive_train) + work_descend_j: the divisor
\* applies to the three positive components only, the descent term is added
\* undivided.
C7_EnergyEfficiency ==
    \A r \in RecIds :
        Cycling(r) =>
            A(r, "energy_j") =
                QAdd(QDiv(PositiveWork(r),
                          QMul(EFFICIENCY_HUMAN, EFFICIENCY_DRIVE_TRAIN)),
                     A(r, "work_descend_j"))

\* C7 witness: a record with descent_m > 0, where dividing the descent term
\* too would give another energy_j.
C7_Witness ==
    \E r \in RecIds :
        /\ Cycling(r)
        /\ A(r, "descent_m") = Q(100, 1)
        /\ A(r, "energy_j") #
              QDiv(QAdd(PositiveWork(r), A(r, "work_descend_j")),
                   QMul(EFFICIENCY_HUMAN, EFFICIENCY_DRIVE_TRAIN))

\* C8: avg_power_w = ((work_drag_j + work_ascent_j + work_roll_j) /
\* efficiency_drive_train + work_descend_j) / time_s: only the drivetrain
\* efficiency is applied, to the three positive components only.
C8_AvgPowerAtPedals ==
    \A r \in RecIds :
        Cycling(r) =>
            A(r, "avg_power_w") =
                QDiv(QAdd(QDiv(PositiveWork(r), EFFICIENCY_DRIVE_TRAIN),
                          A(r, "work_descend_j")),
                     QInt(Seconds(A(r, "time"))))

\* C9: energy_drag_j, energy_roll_j and energy_gravity_j are the component's
\* raw work divided by efficiency_human * efficiency_drive_train;
\* energy_gravity_j uses work_ascent_j only, so it is a function of ascent_m
\* and weight_kg and not of descent_m.
C9_ComponentEnergies ==
    \A r \in RecIds :
        Cycling(r) =>
            LET eff == QMul(EFFICIENCY_HUMAN, EFFICIENCY_DRIVE_TRAIN)
            IN  /\ A(r, "energy_drag_j") = QDiv(A(r, "work_drag_j"), eff)
                /\ A(r, "energy_roll_j") = QDiv(A(r, "work_roll_j"), eff)
                /\ A(r, "energy_gravity_j") = QDiv(A(r, "work_ascent_j"), eff)
                /\ A(r, "energy_gravity_j") =
                      QDiv(QMul(A(r, "ascent_m"), QMul(A(r, "weight_kg"), Q(981, 100))),
                           eff)

\* C9 witness: ascent 100 m and descent 100 m at 80 kg: energy_gravity_j is
\* 78480 / 0.245 although the net gravity work is 0.
C9_Witness ==
    \E r \in RecIds :
        /\ Cycling(r)
        /\ A(r, "ascent_m") = Q(100, 1)
        /\ A(r, "descent_m") = Q(100, 1)
        /\ A(r, "weight_kg") = Q(80, 1)
        /\ A(r, "energy_gravity_j") = QDiv(Q(78480, 1), Q(245, 1000))

\* C10: with weight_kg > 0 and descent_m >= 0, work_descend_j =
\* -descent_m * weight_kg * 9.81 <= 0 and work_ascent_j = ascent_m * weight_kg *
\* 9.81; work_j is the plain sum of the four work terms, so with ascent_m =
\* descent_m the gravity terms cancel in it.
C10_GravityWork ==
    \A r \in RecIds :
        Cycling(r) /\ QLt(QInt(0), A(r, "weight_kg")) /\ QLe(QInt(0), A(r, "descent_m")) =>
            LET g == QMul(A(r, "weight_kg"), Q(981, 100))
            IN  /\ A(r, "work_descend_j") = QNeg(QMul(A(r, "descent_m"), g))
                /\ QLe(A(r, "work_descend_j"), QInt(0))
                /\ A(r, "work_ascent_j") = QMul(A(r, "ascent_m"), g)
                /\ A(r, "work_j") = QAdd(PositiveWork(r), A(r, "work_descend_j"))
                /\ A(r, "ascent_m") = A(r, "descent_m") =>
                      /\ QAdd(A(r, "work_ascent_j"), A(r, "work_descend_j")) = QInt(0)
                      /\ A(r, "work_j") = QAdd(A(r, "work_drag_j"), A(r, "work_roll_j"))

\* C10 witness: ascent = descent = 100 m at 80 kg: 78480 J and -78480 J.
C10_Witness ==
    \E r \in RecIds :
        /\ Cycling(r)
        /\ A(r, "weight_kg") = Q(80, 1)
        /\ A(r, "work_ascent_j") = Q(78480, 1)
        /\ A(r, "work_descend_j") = Q(-78480, 1)

\* distance_m / time_s of record r, from its raw inputs.
InputMs(r) == QDiv(A(r, "distance_m"), QInt(Seconds(A(r, "time"))))

\* The drag force on record r without any drafting:
\* 0.5 * 0.39 * air_density_kgpm3 * speed_ms^2.
UndraftedDrag(r) ==
    QMul(QMul(Q(39, 200), A(r, "air_density_kgpm3")), QMul(InputMs(r), InputMs(r)))

\* C11: after update() of a cycling record, avg_draft_factor = 0.3 *
\* fraction_spend_drafting and force_drag = 0.5 * 0.39 * air_density_kgpm3 *
\* speed_ms^2 * (1 - avg_draft_factor); with fraction 0 the drag is the
\* undrafted value, with fraction 1 the drag and work_drag_j are exactly 70%
\* of the undrafted values of the same record.
C11_DraftFactor ==
    \A r \in RecIds :
        Cycling(r) =>
            /\ A(r, "avg_draft_factor") = QMul(Q(3, 10), A(r, "fraction_spend_drafting"))
            /\ A(r, "force_drag") =
                  QMul(UndraftedDrag(r), QSub(QInt(1), A(r, "avg_draft_factor")))
            /\ A(r, "fraction_spend_drafting") = QInt(0) =>
                  /\ A(r, "avg_draft_factor") = QInt(0)
                  /\ A(r, "force_drag") = UndraftedDrag(r)
            /\ A(r, "fraction_spend_drafting") = QInt(1) =>
                  /\ A(r, "force_drag") = QMul(Q(7, 10), UndraftedDrag(r))
                  /\ A(r, "work_drag_j") =
                        QMul(Q(7, 10), QMul(A(r, "distance_m"), UndraftedDrag(r)))

\* C11 witness: a cycling record that drafted all the time (18 km in one
\* hour, 5 m/s): the undrafted drag is 0.5 * 0.39 * 1.293 * 25 N and
\* force_drag is 70% of it.
C11_Witness ==
    \E r \in RecIds :
        /\ Cycling(r)
        /\ A(r, "fraction_spend_drafting") = QInt(1)
        /\ A(r, "distance_m") = Q(18000, 1)
        /\ A(r, "time") = <<1, 0, 0>>
        /\ A(r, "avg_draft_factor") = Q(3, 10)
        /\ A(r, "force_drag") = QMul(Q(7, 10), Q(39 * 1293 * 25, 200 * 1000))

\* C12: after update() on a record with a positive elapsed time (whatever
\* its class, also when a later assignment of the pass raised), speed_ms =
\* distance_m / time_s and speed_kmph = 3.6 * speed_ms (40000 m in 01:00:00
\* gives 40); the properties return distance_km = distance_m / 1000 and
\* time_h = time_s / 3600.
C12_SpeedDerivation ==
    \A r \in Live :
        ~ZeroDuration(r) =>
            /\ recs[r].upd # "never" =>
                  /\ A(r, "speed_ms") = InputMs(r)
                  /\ A(r, "speed_kmph") = QMul(Q(36, 10), A(r, "speed_ms"))
                  /\ A(r, "distance_m") = Q(40000, 1) /\ A(r, "time") = <<1, 0, 0>> =>
                        A(r, "speed_kmph") = Q(40, 1)
            /\ recs[r].last = "distance_km" =>
                  /\ recs[r].err = "none"
                  /\ recs[r].ret = QDiv(A(r, "distance_m"), QInt(1000))
            /\ recs[r].last = "time_h" =>
                  /\ recs[r].err = "none"
                  /\ recs[r].ret = Q(Seconds(A(r, "time")), 3600)
            /\ recs[r].last = "time_s" =>
                  /\ recs[r].err = "none"
                  /\ recs[r].ret = QInt(Seconds(A(r, "time")))

\* C12 witness: 40000 m in 01:00:00, updated: 100/9 m/s and 40 km/h.
C12_Witness ==
    \E r \in Live :
        /\ recs[r].upd = "ok"
        /\ A(r, "distance_m") = Q(40000, 1)
        /\ A(r, "time") = <<1, 0, 0>>
        /\ A(r, "speed_ms") = Q(100, 9)
        /\ A(r, "speed_kmph") = Q(40, 1)

\* The table invariant: both sequences non-empty and of the same length, the
\* breakpoints strictly increasing.
TableOk(xp, fp) ==
    /\ Len(xp) > 0
    /\ Len(xp) = Len(fp)
    /\ \A i \in 1..(Len(xp) - 1) : QLt(xp[i], xp[i + 1])

\* C13: the METs table of running, walking and speed skating (both
\* revisions of the latter) satisfies the table invariant, and no operation
\* changes the table a record sees: no record binds METS_KM_H or
\* METS_KCAL_KG_H in its instance dictionary, and as_dict(), json() and
\* summarize() return the class's table.
C13_TableInvariant ==
    /\ \A cls \in MetsSpeedClasses : TableOk(METS_KM_H(cls), METS_KCAL_KG_H(cls))
    /\ TableOk(METS_KM_H_speedskatingcalc, METS_KCAL_KG_H("SpeedSkatingStats"))
    /\ \A r \in Live :
          recs[r].cls \in MetsSpeedClasses =>
              /\ {"METS_KM_H", "METS_KCAL_KG_H"} \cap DOMAIN recs[r].attrs = {}
              /\ V(Obj(r), "METS_KM_H") = METS_KM_H(recs[r].cls)
              /\ V(Obj(r), "METS_KCAL_KG_H") = METS_KCAL_KG_H(recs[r].cls)
              /\ recs[r].last \in {"as_dict", "json", "summarize"}
                 /\ recs[r].err = "none" =>
                    /\ recs[r].ret["METS_KM_H"] = METS_KM_H(recs[r].cls)
                    /\ recs[r].ret["METS_KCAL_KG_H"] = METS_KCAL_KG_H(recs[r].cls)
                    /\ TableOk(recs[r].ret["METS_KM_H"], recs[r].ret["METS_KCAL_KG_H"])

\* C13 witness: json() on an updated running record returned the table.
C13_Witness ==
    \E r \in Live :
        /\ recs[r].cls = "RunningStats"
        /\ recs[r].upd = "ok"
        /\ recs[r].last = "json"
        /\ recs[r].err = "none"
        /\ Len(recs[r].ret["METS_KM_H"]) = 6
        /\ recs[r].ret["METS_KM_H"][2] = Q(96, 10)

\* The run of a console script: its class, its command line, and whether
\* result was constructed.
ExecRun == call.fn = "exec"

ExecCls == call.args[1]

ExecArgv == call.args[2]

ExecConstructed == ExecRun /\ call.ret.attrs # <<>>

\* C14: when descent_m is not given on the command line, the record's
\* descent_m is the value of ascent_m, and on a cycling record that was
\* updated work_descend_j = -work_ascent_j.
C14_DescentDefault ==
    ExecConstructed /\ Len(ExecArgv.rest) < 2 =>
        /\ call.ret.attrs["descent_m"] = call.ret.attrs["ascent_m"]
        /\ ExecCls = "CyclingStats" /\ "work_descend_j" \in DOMAIN call.ret.attrs =>
              call.ret.attrs["work_descend_j"] = QNeg(call.ret.attrs["work_ascent_j"])

\* The three inputs C15 names as required.
ThreeRequired == {"distance_m", "time", "weight_kg"}

\* C15: a construction (base or cycling class) that supplies exactly
\* distance_m, time and weight_kg succeeds, and the record has ascent_m = 0,
\* descent_m = 0 and air_density_kgpm3 = 1.293; a construction that omits one
\* of the three raises.
C15_RequiredInputs ==
    call.fn = "init" =>
        /\ DOMAIN call.args[2] = ThreeRequired =>
              /\ call.err = "none"
              /\ GetAttr([cls |-> call.args[1], attrs |-> call.ret], "ascent_m")
                    = Return(Q(0, 1))
              /\ GetAttr([cls |-> call.args[1], attrs |-> call.ret], "descent_m")
                    = Return(Q(0, 1))
              /\ GetAttr([cls |-> call.args[1], attrs |-> call.ret], "air_density_kgpm3")
                    = Return(Q(1293, 1000))
        /\ ~(ThreeRequired \subseteq DOMAIN call.args[2]) => call.err # "none"

\* The parameters the constructor of cls names.
KnownArgs(cls) ==
    RequiredArgs \cup (IF cls = "CyclingStats" THEN {"fraction_spend_drafting"} ELSE {})

\* The mapping kw without the keys the constructor of cls does not name.
Stripped(cls, kw) == [k \in DOMAIN kw \cap KnownArgs(cls) |-> kw[k]]

\* The record of class cls constructed from kw and updated.
UpdatedFrom(cls, kw) == update([cls |-> cls, attrs |-> init(cls, kw).val])

\* What exec returns for an updated record with instance dictionary attrs.
Presented(cls, attrs, asJson) ==
    IF asJson THEN json([cls |-> cls, attrs |-> attrs])
    ELSE summarize([cls |-> cls, attrs |-> attrs])

\* C16: keys the constructor does not name are ignored.  A direct
\* construction from a mapping with extra keys ends as the construction from
\* the mapping without them (it succeeds when no parameter is missing); exec
\* passes the whole namespace (json, loglevel, distance_km, drafting
\* included): the construction does not raise, and the record after update()
\* and the mapping returned are those obtained from the namespace without
\* the extra keys.
C16_ExtraKeysIgnored ==
    /\ call.fn = "init" =>
          /\ call.err = init(call.args[1], Stripped(call.args[1], call.args[2])).err
          /\ call.ret = init(call.args[1], Stripped(call.args[1], call.args[2])).val
          /\ RequiredArgs \subseteq DOMAIN call.args[2] => call.err = "none"
    /\ ExecRun /\ call.ret.ns # <<>> =>
          /\ ExecConstructed
          /\ call.err # "TypeError"
          /\ call.ret.attrs =
                UpdatedFrom(ExecCls, Stripped(ExecCls, call.ret.ns)).attrs
          /\ call.err = "none" =>
                call.ret.out =
                    Presented(ExecCls,
                              UpdatedFrom(ExecCls, Stripped(ExecCls, call.ret.ns)).attrs,
                              ExecArgv.json).val

\* C16 witness: a cycling run whose namespace held json, loglevel,
\* distance_km and drafting besides the constructor's parameters, and that
\* returned its mapping.
C16_Witness ==
    /\ ExecRun
    /\ ExecCls = "CyclingStats"
    /\ call.err = "none"
    /\ {"json", "loglevel", "distance_km", "drafting"} \subseteq DOMAIN call.ret.ns
    /\ DOMAIN call.ret.attrs \cap {"json", "loglevel", "distance_km", "drafting"} = {}
    /\ "avg_power_w" \in DOMAIN call.ret.out

\* The names update() of class cls assigns.
Assigned(cls) == {UpdateSteps(cls)[i] : i \in 1..Len(UpdateSteps(cls))}

\* name.startswith("_")
IsPrivate(name) == name \in PrivateNames

\* C17: on a record whose update() completed, as_dict(exclude) returns
\* exactly the instance attributes, the class-level attributes and the
\* properties whose name is neither private nor excluded, each with the value
\* getattr gives, and no method; so it holds every raw input, speed_ms,
\* speed_kmph, time_s, time_h, distance_km and every field update() assigned,
\* unless excluded.
C17_AsDictContents ==
    \A r \in Live :
        recs[r].upd = "ok" /\ recs[r].last = "as_dict" =>
            /\ recs[r].err = "none"
            /\ DOMAIN recs[r].ret =
                  ((DOMAIN recs[r].attrs \cup ClassAttrNames(recs[r].cls)
                    \cup {"time_s", "time_h", "distance_km"}) \ recs[r].arg)
                  \ {name \in DOMAIN recs[r].attrs : IsPrivate(name)}
            /\ \A name \in DOMAIN recs[r].ret :
                  /\ Return(recs[r].ret[name]) = GetAttr(Obj(r), name)
                  /\ name \notin MethodNames(recs[r].cls)
                  /\ ~IsPrivate(name)
            /\ (RequiredArgs \cup Assigned(recs[r].cls)
                \cup {"time_s", "time_h", "distance_km"}) \ recs[r].arg
                  \subseteq DOMAIN recs[r].ret

\* C17 witness: as_dict(exclude = (time_s, time_h)) on an updated cycling
\* record: no time_s, but distance_km, the raw inputs and avg_power_w.
C17_Witness ==
    \E r \in Live :
        /\ recs[r].cls = "CyclingStats"
        /\ recs[r].upd = "ok"
        /\ recs[r].last = "as_dict"
        /\ recs[r].arg = {"time_s", "time_h"}
        /\ "time_s" \notin DOMAIN recs[r].ret
        /\ {"distance_km", "distance_m", "weight_kg", "avg_power_w", "energy_kcal"}
              \subseteq DOMAIN recs[r].ret

\* A single number is a pair <<numerator, denominator>> and the duration a
\* triple <<hour, minute, second>>; a sequence of numbers is a tuple of pairs.
NumberOrDuration(cls, name, v) ==
    /\ Len(v) = (IF name = "time" THEN 3 ELSE 2)
    /\ cls \in MetsSpeedClasses => v \notin {METS_KM_H(cls), METS_KCAL_KG_H(cls)}

\* C18: on a record of any class whose update() completed, every value of
\* the mapping as_dict() returns is a single number or the duration.
C18_FlatMapping ==
    \A r \in Live :
        recs[r].upd = "ok" /\ recs[r].last = "as_dict" /\ recs[r].err = "none" =>
            \A name \in DOMAIN recs[r].ret :
                NumberOrDuration(recs[r].cls, name, recs[r].ret[name])

NumericInput(str) ==
    \/ IsFloatLiteral(str)
    \/ /\ Len(str) >= 2
       /\ str[Len(str)] = "%"
       /\ IsFloatLiteral(SubSeq(str, 1, Len(str) - 1))

\* The number such an input denotes.
NumericValue(str) ==
    IF str[Len(str)] = "%" THEN float(SubSeq(str, 1, Len(str) - 1)).val
    ELSE float(str).val

InPercentRange(v) == QLe(QInt(0), v) /\ QLe(v, QInt(100))

\* C20: parse_percentage accepts exactly the inputs that are a number with
\* an optional % sign in [0, 100] (bounds included) and returns the number;
\* every other input raises CoreValueError; in exec the error is raised
\* before a record is constructed, and the fraction_spend_drafting of a
\* constructed record is in [0, 1].
C20_ParsePercentage ==
    /\ call.fn = "parse_percentage" =>
          IF NumericInput(call.args[1]) /\ InPercentRange(NumericValue(call.args[1]))
          THEN call.err = "none" /\ call.ret = NumericValue(call.args[1])
          ELSE call.err = "CoreValueError"
    /\ ExecRun /\ ExecCls = "CyclingStats" =>
          /\ ExecArgv.drafting # <<>>
             /\ ~(/\ NumericInput(ExecArgv.drafting[1])
                  /\ InPercentRange(NumericValue(ExecArgv.drafting[1])))
             => call.err = "CoreValueError" /\ call.ret.attrs = <<>>
          /\ ExecConstructed =>
                /\ QLe(QInt(0), call.ret.attrs["fraction_spend_drafting"])
                /\ QLe(call.ret.attrs["fraction_spend_drafting"], QInt(1))

\* A non-negative decimal number, optional spaces and one unit name; the
\* number ends at position n and the unit starts after position k.
NumberWithUnit(str) ==
    \E n \in 1..Len(str) : \E k \in n..Len(str) :
        /\ IsFloatLiteral(SubSeq(str, 1, n))
        /\ str[1] \notin {"-", "+"}
        /\ \A j \in (n + 1)..k : str[j] = " "
        /\ SubSeq(str, k + 1, Len(str)) \in DOMAIN TIME_UNITS

\* number x unit seconds of such a string, cut to a whole second: the
\* number is the longest run of digits and "." at the start, the unit what
\* follows the last space or the number.
WholeSeconds(str) ==
    LET n == CHOOSE n \in 1..Len(str) :
                 /\ \A j \in 1..n : str[j] \in Digits \cup {"."}
                 /\ n = Len(str) \/ str[n + 1] \notin Digits \cup {"."}
        k == CHOOSE k \in n..Len(str) :
                 /\ \A j \in (n + 1)..k : str[j] = " "
                 /\ str[k + 1] # " "
        number == FloatLiteral(SubSeq(str, 1, n)).val
        seconds == TIME_UNITS[SubSeq(str, k + 1, Len(str))]
    IN  (number[1] * seconds) \div number[2]

\* C21 as stated: parse_time_with_unit parses every string made of a
\* non-negative decimal number, optional spaces and one unit name into the
\* time whose total seconds are number x unit seconds cut to a whole second.
C21_ParsesNumberWithUnit ==
    call.fn = "parse_time_with_unit" /\ NumberWithUnit(call.args[1]) =>
        /\ call.err = "none"
        /\ Seconds(call.ret) = WholeSeconds(call.args[1])

\* The seconds of a day.
DaySeconds == 24 * 3600

\* C21: parse_time_with_unit parses every string made of a non-negative
\* decimal number, optional spaces and one unit name whose number x unit
\* seconds, cut to a whole second, is below 24 hours into the time of day
\* with that many seconds; from 24 hours on it returns no time.
C21_ParsesTimeOfDay ==
    call.fn = "parse_time_with_unit" /\ NumberWithUnit(call.args[1]) =>
        IF WholeSeconds(call.args[1]) < DaySeconds
        THEN /\ call.err = "none"
             /\ call.ret \in (0..23) \X (0..59) \X (0..59)
             /\ Seconds(call.ret) = WholeSeconds(call.args[1])
        ELSE call.err # "none"

\* '1.5 s' was parsed into 00:00:01 and '0.5 h' into 00:30:00.
C21_Witness ==
    /\ call.fn = "parse_time_with_unit"
    /\ \/ call.args[1] = <<"1", ".", "5", " ", "s">> /\ call.ret = <<0, 0, 1>>
       \/ call.args[1] = <<"0", ".", "5", " ", "h">> /\ call.ret = <<0, 30, 0>>

\* The spaces of a string removed.
Unspaced(str) == SelectSeq(str, LAMBDA c : c # " ")

\* A number followed by exactly one known unit, spaces allowed anywhere
\* before the unit.
SpacedNumberWithUnit(str) ==
    \E n \in 1..Len(str) :
        /\ IsFloatLiteral(Unspaced(SubSeq(str, 1, n)))
        /\ str[1] \notin {"-", "+"}
        /\ SubSeq(str, n + 1, Len(str)) \in DOMAIN TIME_UNITS

\* C22: parse_time_with_unit raises a ValueError for every string that is
\* not a number followed by exactly one known unit, and never returns a time
\* for it.
C22_InvalidRaisesValueError ==
    call.fn = "parse_time_with_unit" /\ ~SpacedNumberWithUnit(call.args[1]) =>
        /\ call.err # "none"
        /\ issubclass(call.err, "ValueError")

\* C23: parse_time either returns a time or raises CoreValueError, for
\* every input string.
C23_OnlyCoreValueError ==
    call.fn = "parse_time" =>
        call.err = "none" \/ issubclass(call.err, "CoreValueError")

\* C24: except_hook logs an uncaught exception whose type is CoreException
\* or a subclass of it at error level without traceback, and every other
\* uncaught exception at critical level with its traceback, in both modules.
C24_ExceptHookLevels ==
    call.fn = "except_hook" =>
        IF issubclass(call.args[2], "CoreException")
        THEN call.ret = Logged("ERROR", FALSE)
        ELSE call.ret = Logged("CRITICAL", TRUE)

\* The statements a run executed so far.
Done == call.ret.done

\* Statement a was executed before position i of the run.
Earlier(a, i) == \E j \in 1..(i - 1) : Done[j] = a

\* The order of a run: no statement twice, the constructor after the
\* parser, update() after the constructor, and the return statement after
\* an update() that succeeded; a text is returned only by the return
\* statement of a run in which nothing failed.
RunOrder ==
    /\ \A i, j \in DOMAIN Done : Done[i] = Done[j] => i = j
    /\ \A i \in DOMAIN Done :
          /\ Done[i] = "construct" => Earlier("parse_args", i)
          /\ Done[i] = "update" => Earlier("construct", i)
          /\ Done[i] = "return" =>
                /\ Earlier("update", i)
                /\ Cardinality({j \in 1..(i - 1) : Done[j] = "update"}) = 1
                /\ recs[1].upd = "ok"
    /\ call.ret.out # <<>> =>
          call.err = "none" /\ Done # <<>> /\ Done[Len(Done)] = "return"
    /\ call.err # "none" =>
          /\ call.ret.out = <<>>
          /\ Done[Len(Done)] # "return" => recs[1].last \notin {"json", "summarize"}

C25_WitnessFailed ==
    /\ call.fn = "run"
    /\ call.err = "CoreValueError"
    /\ Done = <<"excepthook", "parse_args", "construct", "update">>
    /\ call.ret.out = <<>>

\* What an assignment of update() may read without an earlier assignment:
\* the raw inputs, the class-level attributes and the properties computed
\* from the raw inputs.
Available(cls) == RequiredArgs \cup ClassAttrNames(cls) \cup PropertyNames

\* C26: in every update() speed_ms and speed_kmph are assigned first and
\* every assignment reads only raw inputs, class constants and fields
\* assigned earlier in the same pass, so that update() on a record with a
\* positive elapsed time does not fail on a missing field.
C26_UpdateOrder ==
    \A r \in Live :
        recs[r].last = "update" /\ Seconds(A(r, "time")) > 0 =>
            LET steps == UpdateSteps(recs[r].cls)
            IN  /\ steps[1] = "speed_ms" /\ steps[2] = "speed_kmph"
                /\ \A i \in DOMAIN steps :
                      \A k \in DOMAIN StepReads(recs[r].cls, steps[i]) :
                          StepReads(recs[r].cls, steps[i])[k]
                              \in Available(recs[r].cls)
                                      \cup {steps[j] : j \in 1..(i - 1)}
                /\ recs[r].upd = "ok"

\* The names the constructor binds on a record of class cls.
InputNames(cls) ==
    RequiredArgs \cup (IF cls = "CyclingStats" THEN {"fraction_spend_drafting"} ELSE {})

\* The record r as constructed from its raw inputs, and as it is when
\* nothing but its own update() ran on it.
Fresh(r) ==
    [cls |-> recs[r].cls, attrs |-> [k \in InputNames(recs[r].cls) |-> A(r, k)]]

Alone(r) ==
    IF recs[r].upd = "never" THEN Fresh(r)
    ELSE [cls |-> recs[r].cls, attrs |-> update(Fresh(r)).attrs]

\* Each record is what it would be alone, and what the last call on it
\* returned is what the call returns on the record alone; json() formats
\* the time in the mapping it returns, not on the record.
Independent ==
    \A r \in Live :
        /\ recs[r].attrs = Alone(r).attrs
        /\ recs[r].last = "as_dict" => recs[r].ret = as_dict(Alone(r), recs[r].arg).val
        /\ recs[r].last = "summarize" => recs[r].ret = summarize(Alone(r)).val
        /\ recs[r].last = "json" =>
              /\ recs[r].ret = json(Alone(r)).val
              /\ A(r, "time") \in Times
              /\ recs[r].err = "none" => recs[r].ret["time"] = strftime(A(r, "time"))

\* A step changes one record only, and on a record that exists it changes
\* neither the class, nor a raw input, nor a class-level attribute.
Framed ==
    \A r \in RecIds :
        /\ recs'[r] # recs[r] => \A q \in RecIds \ {r} : recs'[q] = recs[q]
        /\ recs[r].phase = "constructed" =>
              /\ recs'[r].phase = "constructed"
              /\ recs'[r].cls = recs[r].cls
              /\ \A k \in InputNames(recs[r].cls) : recs'[r].attrs[k] = A(r, k)
              /\ \A k \in ClassAttrNames(recs[r].cls) :
                    GetAttr([cls |-> recs'[r].cls, attrs |-> recs'[r].attrs], k)
                        = GetAttr(Obj(r), k)

\* C27: update(), as_dict(), json() and summarize() leave the raw inputs
\* and the class constants of their record unchanged and never change
\* another record; with two records and any interleaving of the calls each
\* record and each mapping returned are those obtained alone.
C27_Frame == []Independent /\ [][Framed]_vars

\* Both records were updated and json() was the last call on one of them,
\* after the other one was updated.
C27_Witness ==
    /\ recs[1].upd = "ok" /\ recs[2].upd = "ok"
    /\ recs[1].cls = recs[2].cls
    /\ recs[1].attrs # recs[2].attrs
    /\ recs[1].last = "json" /\ recs[2].last = "update"

\* C28: on every cycling record whose update() completed, avg_power_w is
\* the sum avg_power_drag_w + avg_power_gravity_w + avg_power_roll_w, for
\* every descent_m >= 0.
C28_PowerComponentsSum ==
    \A r \in RecIds :
        Cycling(r) =>
            A(r, "avg_power_w") =
                QAdd(A(r, "avg_power_drag_w"),
                     QAdd(A(r, "avg_power_gravity_w"), A(r, "avg_power_roll_w")))

\* The record r after one update() on its raw inputs.
Once(r) == [cls |-> recs[r].cls, attrs |-> update(Fresh(r)).attrs]

\* After one or more calls of update() the record, the outcome of the call
\* and the mapping as_dict() returns are those after exactly one call.
SameAsOnce ==
    \A r \in Live :
        UpdateCount(r) >= 1 =>
            /\ recs[r].attrs = Once(r).attrs
            /\ recs[r].last = "update" => recs[r].err = update(Fresh(r)).err
            /\ recs[r].last = "as_dict" =>
                  /\ recs[r].ret = as_dict(Once(r), {}).val
                  /\ recs[r].err = as_dict(Once(r), {}).err

EqualInputs(r, q) ==
    /\ recs[r].cls = recs[q].cls
    /\ \A k \in InputNames(recs[r].cls) : A(r, k) = A(q, k)

\* Updated records built from equal inputs give equal mappings, however
\* many times each was updated.
EqualMappings ==
    \A r \in Live : \A q \in Live :
        EqualInputs(r, q) /\ UpdateCount(r) >= 1 /\ UpdateCount(q) >= 1 =>
            as_dict(Obj(r), {}) = as_dict(Obj(q), {})

\* A further update() on an updated record changes neither the record nor
\* its mapping.
Repeated ==
    \A r \in Live :
        UpdateCount(r) >= 1 /\ UpdateCount(r)' = UpdateCount(r) + 1 =>
            /\ recs'[r].attrs = recs[r].attrs
            /\ as_dict([cls |-> recs'[r].cls, attrs |-> recs'[r].attrs], {})
                  = as_dict(Obj(r), {})

\* C29: update() is idempotent and deterministic: calling it two or more
\* times on a record yields the same record and the same as_dict() mapping
\* as calling it once, and two records built from equal inputs yield equal
\* mappings.
C29_Idempotent == [](SameAsOnce /\ EqualMappings) /\ [][Repeated]_vars

\* Two records built from equal inputs, one updated once and the other
\* twice, and as_dict() returned the same mapping on both.
C29_Witness ==
    /\ recs[1].phase = "constructed" /\ recs[2].phase = "constructed"
    /\ EqualInputs(1, 2)
    /\ UpdateCount(1) = 1 /\ UpdateCount(2) = 2
    /\ recs[1].upd = "ok" /\ recs[2].upd = "ok"
    /\ recs[1].last = "as_dict" /\ recs[2].last = "as_dict"
    /\ recs[1].err = "none" /\ recs[1].ret = recs[2].ret

\* The METs values of the table of class cls.
TableMets(cls) == {METS_KCAL_KG_H(cls)[i] : i \in DOMAIN METS_KCAL_KG_H(cls)}

SmallestMets(cls) == CHOOSE v \in TableMets(cls) : \A w \in TableMets(cls) : QLe(v, w)

LargestMets(cls) == CHOOSE v \in TableMets(cls) : \A w \in TableMets(cls) : QLe(w, v)

\* C30: on a running, walking or speed-skating record with weight_kg > 0
\* and a positive elapsed time, after update() mets_kcal_kg_h lies between
\* the smallest and the largest METs value of the table, at every speed in
\* or out of the table, every table value exceeds the resting 1 MET, and
\* energy_kcal and energy_kj are strictly positive.
C30_MetsWithinTable ==
    \A r \in Live :
        /\ recs[r].cls \in MetsSpeedClasses
        /\ recs[r].upd = "ok"
        /\ QLt(QInt(0), A(r, "weight_kg"))
        /\ Seconds(A(r, "time")) > 0
        => /\ QLe(SmallestMets(recs[r].cls), A(r, "mets_kcal_kg_h"))
           /\ QLe(A(r, "mets_kcal_kg_h"), LargestMets(recs[r].cls))
           /\ QLt(QInt(1), SmallestMets(recs[r].cls))
           /\ QLt(QInt(0), A(r, "energy_kcal"))
           /\ QLt(QInt(0), A(r, "energy_kj"))

\* A walk of 1 km in one hour, below the first breakpoint of 1.61 km/h: the
\* smallest METs value 2.0 is stored and 70 kg burn 70 kcal.
C30_Witness ==
    \E r \in Live :
        /\ recs[r].cls = "WalkingStats"
        /\ recs[r].upd = "ok"
        /\ BelowTable(r)
        /\ A(r, "mets_kcal_kg_h") = SmallestMets("WalkingStats")
        /\ A(r, "weight_kg") = Q(70, 1)
        /\ A(r, "energy_kcal") = Q(70, 1)
        /\ QLt(QInt(0), A(r, "energy_kj"))
====
